---- MODULE Spec2Model ----
(***************************************************************************)
(* Model of the xci run execution engine (ActAdapter.run / runAct in       *)
(* src/engines/act/act-adapter.ts) together with the run-record persister  *)
(* (createRunEventPersister in src/store/run-store.ts) that the CLI        *)
(* installs as the engine's event callback.                                *)
(*                                                                         *)
(* One behaviour is one call of run(plan, context).  The cancellation      *)
(* token (context.signal) is driven by the environment and may be aborted  *)
(* at any moment; a context without a token behaves as one whose token is  *)
(* never aborted, since every use is `signal?.aborted` or `if (signal)`.   *)
(*                                                                         *)
(* PlanSpec models the graph resolver of src/core/plan.ts, the pure        *)
(* functions expandJobIdsWithNeeds and sortJobsByNeeds that the CLI        *)
(* applies before it builds the plan: one behaviour is one application of  *)
(* one of them to a workflow and a list of distinct job ids.               *)
(***************************************************************************)
EXTENDS Integers, Sequences, FiniteSets, TLC

\* ------------------------------------------------------------------ bounds
MaxJobs == 3
\* events of another run handed to the persister during one behaviour
MaxForeign == 2
\* job ids a workflow can define or name
MaxGraphJobs == 3
\* needs entries of a workflow, all jobs together
MaxEdges == 3
\* jobs handed to filterJobsForEvent
MaxFilterJobs == 3
\* step ids of the status maps handed to mergeStepStatuses
MaxMergeSteps == 2
\* steps of the job whose output is parsed
MaxSteps == 3
\* lines of the text that is parsed
MaxLines == 4
\* atoms of an output stream
MaxText == 5
\* arguments passed through to act
MaxExtraArgs == 2
\* items of a matrix override
MaxMatrix == 1
\* characters the child writes to stdout and to stderr
MaxOutText == 2
MaxErrText == 3
\* segments of a run id handed to the store
MaxSegments == 2

\* --------------------------------------------------------------- constants
\* exit code of a canceled run or job
CanceledCode == 130
\* exit code of a spawn failure, of a process that reported no code, and of
\* an empty plan
FailureCode == 1
\* `code` is null in the close event when the process was ended by a signal
NullCode == -1
\* "no value yet" for numeric fields (undefined in the source)
Undefined == -2
\* lines kept per step; 80 in the source, scaled down so that texts of
\* MaxLines lines reach it
MAX_LOG_LINES == 2

\* plan.runId; the engine stamps it on every event
PlanRunId == "run-1"
\* the run id of any other run
OtherRunId == "run-2"
RunIds == {PlanRunId, OtherRunId}

\* job ids of a plan
JobIds == 1..MaxJobs

\* codes a process can report in its close event
ExitCodes == {0, 1, 2, CanceledCode, NullCode}

RECURSIVE SeqsUpTo(_, _)
SeqsUpTo(S, n) ==
  IF n = 0 THEN {<<>>}
  ELSE LET shorter == SeqsUpTo(S, n - 1)
       IN  shorter \cup {Append(s, x) : s \in shorter, x \in S}

Range(s) == {s[i] : i \in 1..Len(s)}

\* RunPlan.jobs: the ordered jobs of a plan; buildRunPlan receives the ids
\* from expandJobIdsWithNeeds (a Set), so they are pairwise distinct
Plans == {p \in SeqsUpTo(JobIds, MaxJobs) : Cardinality(Range(p)) = Len(p)}

VARIABLES
  plan,         \* plan.jobs as the sequence of job ids
  aborted,      \* context.signal.aborted
  pc,           \* position of run(): idle, boundary, runAct, running,
                \* settled, finish, done
  index,        \* loop index of run(), 1-based
  exitCode,     \* local exitCode of run()
  hasFailure,   \* local hasFailure of run()
  hasCanceled,  \* local hasCanceled of run()
  lastLogsPath, \* local lastLogsPath: 0 for "", else the index of the job
  events,       \* every event handed to context.onEvent, in order
  run,          \* the persister's in-memory RunRecord (Undefined-free: a
                \* record once built, <<>> before)
  disk,         \* per run id: the run.json document of that run's
                \* directory, <<>> while there is none
  foreign,      \* number of events of another run handed to the persister
  errorLines,   \* per plan index: the lines the error handler wrote to the
                \* job's log and to the live output
  workflow,     \* graph resolver: per job id its needs array, or the
                \* marker of a job the workflow does not define
  input,        \* graph resolver: the job id list a function is applied to
  gpc,          \* graph resolver: ready, sorted, expanded (off in a run)
  result,       \* graph resolver: the array the applied function returned
  threw,        \* graph resolver: whether the applied function threw
  entered,      \* graph resolver: the job ids of the calls of visit that
                \* went past both early returns, in call order
  applied,      \* which of the other pure functions was applied: ready
                \* before the call, off where none is called
  workflowJobs, \* filterJobsForEvent: the jobs argument
  eventName,    \* filterJobsForEvent: the eventName argument
  availableJobs, \* filterJobsForEvent: the returned array
  previous,     \* mergeStepStatuses: the previous argument
  nextStatuses, \* mergeStepStatuses: the next argument
  merged,       \* mergeStepStatuses: the returned map
  steps,        \* parseStepData: the steps argument, per step its name
  jobStatus,    \* parseStepData: the jobStatus argument
  scan,         \* parseStepData: the locals of the loop over the lines
  statuses,     \* parseStepData: the statuses it returns
  lineCount,    \* parseStepData: lines the loop has taken
  lastLine,     \* parseStepData: the line the loop took last
  runMarkers,   \* per name, the run markers the loop has taken
  earlyMarker,  \* per name, whether a success or failure marker came
                \* before the first run marker
  lastStarted,  \* per name, the step the last run marker for it set to
                \* running, 0 when there was none
  folded,       \* the step statuses of the view: every parse so far,
                \* folded with mergeStepStatuses
  streamText,   \* the text the child writes to one output stream
  pushed,       \* how much of it the data events have delivered
  formatter,    \* createActOutputFormatter: buffer, inGroup, inWithBlock
  forwarded,    \* the text handed to onOutput so far
  splitLine,    \* whether a data event ended inside a line
  context,      \* buildActArgs: the context argument
  matrix,       \* buildActArgs: the matrix argument
  args,         \* the array buildActArgs returns
  echoed,       \* the arguments of the command line written to the log
  streamBytes,  \* runAct: per stream, the bytes the child writes to it
  received,     \* runAct: per stream, the bytes the data events delivered
  logFile,      \* runAct: what was written to logStream, in order, each
                \* write with the handler it came from
  liveOutput,   \* runAct: the calls of onOutput, in order
  dockerHinted, \* runAct: the flag of maybeHintDockerError
  actFormatter, \* runAct: the formatter both data handlers push to
  jobExit,      \* runAct: the code the promise resolved with
  storeRunId,   \* RunStore: the run id of the call
  storeOp,      \* RunStore: the method called
  touched,      \* RunStore: the paths created or written by the call
  storeThrew,   \* RunStore: whether the call threw
  proc,         \* per plan index: none, alive, exited, spawnError
  killed,       \* child.killed of the current child
  honors,       \* whether the current child exits on SIGTERM
  settled,      \* runAct's settled flag of the current job
  returned,     \* the exit code run() returned, Undefined before
  reported,     \* per plan index: the code of the close event, Undefined
                \* when there was none
  closeAborted, \* the indexes whose close event found the token aborted
  preAborted,   \* whether the token was aborted when run() was called
  sawAbortAt,   \* the index at which the loop found the token aborted, 0
                \* when it never did
  abortedDuring \* the index whose process was alive when the token was
                \* aborted, 0 when there was none

vars == <<plan, aborted, pc, index, exitCode, hasFailure, hasCanceled,
          lastLogsPath, events, run, disk, foreign, errorLines, workflow,
          input, gpc, result, threw, entered, applied, workflowJobs,
          eventName, availableJobs, previous, nextStatuses, merged, steps,
          jobStatus, scan, statuses, lineCount, lastLine, runMarkers,
          earlyMarker, lastStarted, folded, streamText, pushed, formatter,
          forwarded, splitLine, context, matrix, args, echoed,
          streamBytes, received, logFile, liveOutput, dockerHinted,
          actFormatter, jobExit, storeRunId, storeOp, touched, storeThrew,
          proc, killed, honors, settled, returned, reported,
          closeAborted, preAborted, sawAbortAt, abortedDuring>>

engineVars == <<index, exitCode, hasFailure, hasCanceled, lastLogsPath>>
childVars == <<proc, killed, honors, settled, reported, closeAborted,
               errorLines>>
graphVars == <<workflow, input, gpc, result, threw, entered>>
\* what no step of run() touches
filterVars == <<workflowJobs, eventName, availableJobs>>
mergeVars == <<previous, nextStatuses, merged>>
parseVars == <<steps, jobStatus, scan, statuses, lineCount, lastLine,
               runMarkers, earlyMarker, lastStarted, folded>>
formatVars == <<streamText, pushed, formatter, forwarded, splitLine>>
argVars == <<context, matrix, args, echoed>>
echoVars == <<formatVars, argVars>>
streamVars == <<streamBytes, received, logFile, liveOutput, dockerHinted,
                actFormatter, jobExit>>
storeVars == <<storeRunId, storeOp, touched, storeThrew>>
ioVars == <<streamVars, storeVars>>
pureVars == <<applied, filterVars, mergeVars, parseVars, echoVars, ioVars>>
auxVars == <<foreign, graphVars, pureVars>>
ghostVars == <<preAborted, sawAbortAt, abortedDuring>>

\* ------------------------------------------------------------------ events
\* EngineRuntimeEvent; timestamps, durations and directory paths are not
\* modelled, they take part in no decision
RunStartedEvent(p) ==
  [type |-> "run-started", runId |-> PlanRunId, jobs |-> p]

JobStartedEvent(jobId) ==
  [type |-> "job-started", runId |-> PlanRunId, jobId |-> jobId]

JobFinishedEvent(jobId, status, code) ==
  [type |-> "job-finished", runId |-> PlanRunId, jobId |-> jobId,
   status |-> status, exitCode |-> code]

JobsCanceledEvent(jobIds) ==
  [type |-> "jobs-canceled", runId |-> PlanRunId, jobIds |-> jobIds]

RunFinishedEvent(status) ==
  [type |-> "run-finished", runId |-> PlanRunId, status |-> status]

\* ----------------------------------------------------------- the persister
\* `run = null` of createRunEventPersister
NoRun == <<>>

\* a slip of FindJob: the predicate holds for every JobRun
FindJob_First(jobs, jobId) == IF jobs # <<>> THEN 1 ELSE 0

\* run.jobs.find((item) => item.jobId === jobId): the index of the first
\* JobRun with that id, 0 when there is none
FindJob(jobs, jobId) ==
  IF \E i \in 1..Len(jobs) : jobs[i].jobId = jobId
  THEN CHOOSE i \in 1..Len(jobs) :
         /\ jobs[i].jobId = jobId
         /\ \A k \in 1..(i - 1) : jobs[k].jobId # jobId
  ELSE 0

\* a slip of FinishJobRun: the exit code is not stored
FinishJobRun_DropExitCode(job, e) ==
  [job EXCEPT !.status = e.status]

\* the JobRun after a job-finished event
FinishJobRun(job, e) ==
  [job EXCEPT !.status = e.status, !.exitCode = e.exitCode]

\* a slip of FinishRun: the status of the run is not stored
FinishRun_KeepStatus(r, e) == r

\* the RunRecord after a run-finished event
FinishRun(r, e) == [r EXCEPT !.status = e.status]

\* the RunRecord after the persister has handled event e on record r
HandleEvent(r, e) ==
  CASE e.type = "run-started" ->
         [id |-> e.runId, status |-> "running",
          jobs |-> [i \in 1..Len(e.jobs) |->
                      [jobId |-> e.jobs[i], status |-> "pending",
                       exitCode |-> Undefined]]]
    [] e.type = "job-started" ->
         IF r = NoRun \/ r.id # e.runId THEN r
         ELSE LET i == FindJob(r.jobs, e.jobId)
              IN  IF i = 0 THEN r
                  ELSE [r EXCEPT !.jobs[i].status = "running"]
    [] e.type = "job-finished" ->
         IF r = NoRun \/ r.id # e.runId THEN r
         ELSE LET i == FindJob(r.jobs, e.jobId)
              IN  IF i = 0 THEN r
                  ELSE [r EXCEPT !.jobs[i] = FinishJobRun(r.jobs[i], e)]
    [] e.type = "jobs-canceled" ->
         IF r = NoRun \/ r.id # e.runId THEN r
         ELSE [r EXCEPT !.jobs =
                 [i \in 1..Len(r.jobs) |->
                    IF /\ r.jobs[i].jobId \in Range(e.jobIds)
                       /\ FindJob(r.jobs, r.jobs[i].jobId) = i
                       /\ r.jobs[i].status = "pending"
                    THEN [r.jobs[i] EXCEPT !.status = "canceled"]
                    ELSE r.jobs[i]]]
    [] e.type = "run-finished" ->
         IF r = NoRun \/ r.id # e.runId THEN r
         ELSE FinishRun(r, e)

\* whether the handler of e reaches its runStore.writeRun(run) on record r
Handled(r, e) ==
  CASE e.type = "run-started" -> TRUE
    [] e.type \in {"job-started", "job-finished"} ->
         /\ r # NoRun
         /\ r.id = e.runId
         /\ FindJob(r.jobs, e.jobId) # 0
    [] e.type \in {"jobs-canceled", "run-finished"} ->
         /\ r # NoRun
         /\ r.id = e.runId

\* a slip of WriteRun: nothing is written
WriteRun_Skip(d, r) == d

\* RunStore.writeRun: the run.json of the record's run directory is
\* overwritten as a whole
WriteRun(d, r) == [d EXCEPT ![r.id] = r]

\* the persister's record and the store after one event
PersistEvent(st, e) ==
  LET r == HandleEvent(st.run, e)
  IN  [run |-> r,
       disk |-> IF Handled(st.run, e) THEN WriteRun(st.disk, r) ELSE st.disk]

\* a slip of PersistAll: only the first event of a batch is handled
PersistAll_FirstOnly(st, es) ==
  IF es = <<>> THEN st ELSE PersistEvent(st, Head(es))

RECURSIVE PersistAll(_, _)
PersistAll(st, es) ==
  IF es = <<>> THEN st ELSE PersistAll(PersistEvent(st, Head(es)), Tail(es))

\* the persister is handed the events of es, in order
Persist(es) ==
  LET st == PersistAll([run |-> run, disk |-> disk], es)
  IN  /\ run' = st.run
      /\ disk' = st.disk

\* context.onEvent?.(event) for each event of es, in order; the CLI's
\* callback is the persister
Emit(es) ==
  /\ events' = events \o es
  /\ Persist(es)

\* -------------------------------------------------------------- the engine
\* status of a finished job
StatusOf(code) ==
  IF code = CanceledCode THEN "canceled"
  ELSE IF code = 0 THEN "success" ELSE "failed"

\* a slip of RunStatus: a canceled run counts as a success
RunStatus_IgnoreCanceled(failure, canceled) ==
  IF failure THEN "failed" ELSE "success"

\* status of the finished run
RunStatus(failure, canceled) ==
  IF failure THEN "failed" ELSE IF canceled THEN "canceled" ELSE "success"

\* a slip of MarkRemainingCanceled: the job at startIndex is left out
MarkRemainingCanceled_SkipFirst(p, startIndex) ==
  LET jobIds == SubSeq(p, startIndex + 1, Len(p))
  IN  IF Len(jobIds) = 0 THEN <<>> ELSE <<JobsCanceledEvent(jobIds)>>

\* a slip of MarkRemainingCanceled: an empty list is announced too
MarkRemainingCanceled_EmitEmpty(p, startIndex) ==
  <<JobsCanceledEvent(SubSeq(p, startIndex, Len(p)))>>

\* the events markRemainingCanceled emits: none when no job is left
MarkRemainingCanceled(p, startIndex) ==
  LET jobIds == SubSeq(p, startIndex, Len(p))
  IN  IF Len(jobIds) = 0 THEN <<>> ELSE <<JobsCanceledEvent(jobIds)>>

\* a slip of CloseCode: the token is not looked at
CloseCode_IgnoreAbort(isAborted, code) ==
  IF code = NullCode THEN FailureCode ELSE code

\* the code the close handler settles with
CloseCode(isAborted, code) ==
  IF isAborted THEN CanceledCode
  ELSE IF code = NullCode THEN FailureCode ELSE code

\* a slip of NextIndex: every other job is left out
NextIndex_Skip(i) == i + 2

\* the loop moves on to the next entry of plan.jobs
NextIndex(i) == i + 1

\* a slip of StopsLoop: a job that ended with 130 does not end the loop
StopsLoop_OnlyFailure(code) == code # 0 /\ code # CanceledCode

\* `exitCode !== 0`: the job did not succeed and the loop ends
StopsLoop(code) == code # 0

\* a slip of OnAbort: no signal is sent
OnAbort_NoKill(isKilled) == isKilled

\* child.killed after onAbort: SIGTERM is sent unless it was sent before
OnAbort(isKilled) == IF ~isKilled THEN TRUE ELSE isKilled

\* filterJobsForEvent is not called
FilterOff ==
  /\ workflowJobs = <<>>
  /\ eventName = ""
  /\ availableJobs = <<>>

\* mergeStepStatuses is not called
MergeOff ==
  /\ previous = <<>>
  /\ nextStatuses = <<>>
  /\ merged = <<>>

\* parseStepData is not called
ParseOff ==
  /\ steps = <<>>
  /\ jobStatus = ""
  /\ scan = <<>>
  /\ statuses = <<>>
  /\ lineCount = 0
  /\ lastLine = <<>>
  /\ runMarkers = <<>>
  /\ earlyMarker = <<>>
  /\ lastStarted = <<>>
  /\ folded = <<>>

\* no output formatter is created
FormatOff ==
  /\ streamText = <<>>
  /\ pushed = 0
  /\ formatter = <<>>
  /\ forwarded = <<>>
  /\ splitLine = FALSE

\* buildActArgs is not called
ArgsOff ==
  /\ context = <<>>
  /\ matrix = <<>>
  /\ args = <<>>
  /\ echoed = <<>>

EchoOff == FormatOff /\ ArgsOff

\* runAct's output handling is not followed
StreamOff ==
  /\ streamBytes = <<>>
  /\ received = <<>>
  /\ logFile = <<>>
  /\ liveOutput = <<>>
  /\ dockerHinted = FALSE
  /\ actFormatter = <<>>
  /\ jobExit = Undefined

\* no RunStore method is called
StoreOff ==
  /\ storeRunId = <<>>
  /\ storeOp = ""
  /\ touched = {}
  /\ storeThrew = FALSE

IoOff == StreamOff /\ StoreOff

\* none of the other pure functions is called
PureOff ==
  /\ applied = "off"
  /\ FilterOff
  /\ MergeOff
  /\ ParseOff
  /\ EchoOff
  /\ IoOff

Init ==
  /\ plan \in Plans
  /\ aborted = FALSE
  /\ pc = "idle"
  /\ index = 1
  /\ exitCode = 0
  /\ hasFailure = FALSE
  /\ hasCanceled = FALSE
  /\ lastLogsPath = 0
  /\ events = <<>>
  /\ run = NoRun
  /\ disk = [id \in RunIds |-> NoRun]
  /\ foreign = 0
  /\ errorLines = [i \in 1..Len(plan) |-> <<>>]
  /\ workflow = <<>>
  /\ input = <<>>
  /\ gpc = "off"
  /\ result = <<>>
  /\ threw = FALSE
  /\ entered = <<>>
  /\ PureOff
  /\ proc = [i \in 1..Len(plan) |-> "none"]
  /\ killed = FALSE
  /\ honors = FALSE
  /\ settled = FALSE
  /\ returned = Undefined
  /\ reported = [i \in 1..Len(plan) |-> Undefined]
  /\ closeAborted = {}
  /\ preAborted = FALSE
  /\ sawAbortAt = 0
  /\ abortedDuring = 0

\* a slip of CallRun: the empty plan is announced too
CallRun_Announce ==
  /\ pc = "idle"
  /\ Emit(<<RunStartedEvent(plan)>>)
  /\ IF Len(plan) = 0
     THEN /\ returned' = FailureCode
          /\ pc' = "done"
     ELSE /\ pc' = "boundary"
          /\ UNCHANGED returned
  /\ preAborted' = aborted
  /\ UNCHANGED <<auxVars, plan, aborted, engineVars, childVars, sawAbortAt,
                 abortedDuring>>

\* run() up to the loop: the empty plan returns at once, any other plan
\* announces the run
CallRun ==
  /\ pc = "idle"
  /\ IF Len(plan) = 0
     THEN /\ returned' = FailureCode
          /\ pc' = "done"
          /\ UNCHANGED <<events, run, disk>>
     ELSE /\ Emit(<<RunStartedEvent(plan)>>)
          /\ pc' = "boundary"
          /\ UNCHANGED returned
  /\ preAborted' = aborted
  /\ UNCHANGED <<auxVars, plan, aborted, engineVars, childVars, sawAbortAt,
                 abortedDuring>>

\* top of the loop body: leave when the plan is exhausted, cancel the rest
\* when the token is aborted, else announce the job
JobBoundary ==
  /\ pc = "boundary"
  /\ IF index > Len(plan)
     THEN /\ pc' = "finish"
          /\ UNCHANGED <<exitCode, hasCanceled, lastLogsPath, events, run, disk,
                         sawAbortAt>>
     ELSE IF aborted
     THEN /\ exitCode' = CanceledCode
          /\ hasCanceled' = TRUE
          /\ Emit(MarkRemainingCanceled(plan, index))
          /\ sawAbortAt' = index
          /\ pc' = "finish"
          /\ UNCHANGED lastLogsPath
     ELSE /\ lastLogsPath' = index
          /\ Emit(<<JobStartedEvent(plan[index])>>)
          /\ pc' = "runAct"
          /\ UNCHANGED <<exitCode, hasCanceled, sawAbortAt>>
  /\ UNCHANGED <<auxVars, plan, aborted, index, hasFailure, childVars, returned,
                 preAborted, abortedDuring>>

\* runAct up to the registration of its handlers: an aborted token resolves
\* 130 without a process, else the process is spawned (or fails to spawn,
\* which the error event reports)
RunActEnter ==
  /\ pc = "runAct"
  /\ IF aborted
     THEN /\ exitCode' = CanceledCode
          /\ pc' = "settled"
          /\ UNCHANGED childVars
     ELSE /\ \E ok \in BOOLEAN, h \in BOOLEAN :
               /\ proc' = [proc EXCEPT ![index] =
                             IF ok THEN "alive" ELSE "spawnError"]
               /\ honors' = h
          /\ killed' = FALSE
          /\ settled' = FALSE
          /\ pc' = "running"
          /\ UNCHANGED <<exitCode, reported, closeAborted, errorLines>>
  /\ UNCHANGED <<auxVars, plan, aborted, index, hasFailure, hasCanceled,
                 lastLogsPath, events, run, disk, returned, ghostVars>>

\* the token is aborted; while runAct's listener is registered, onAbort
\* sends SIGTERM to a child that was not killed yet
Abort ==
  /\ ~aborted
  /\ pc # "done"
  /\ aborted' = TRUE
  /\ killed' = IF pc = "running" /\ ~settled /\ proc[index] = "alive"
               THEN OnAbort(killed) ELSE killed
  /\ abortedDuring' = IF pc = "running" /\ proc[index] = "alive"
                      THEN index ELSE abortedDuring
  /\ UNCHANGED <<auxVars, plan, pc, engineVars, events, run, disk, proc,
                 honors, settled,
                 returned, reported, closeAborted, errorLines, preAborted,
                 sawAbortAt>>

\* finish(code) of runAct: the first call settles the promise
Finish(code) ==
  /\ ~settled
  /\ settled' = TRUE
  /\ exitCode' = code
  /\ pc' = "settled"

\* close event of the child
ChildClose(code) ==
  /\ pc = "running"
  /\ proc[index] = "alive"
  /\ Finish(CloseCode(aborted, code))
  /\ proc' = [proc EXCEPT ![index] = "exited"]
  /\ reported' = [reported EXCEPT ![index] = code]
  /\ closeAborted' = IF aborted THEN closeAborted \cup {index}
                     ELSE closeAborted
  /\ UNCHANGED <<auxVars, plan, aborted, index, hasFailure, hasCanceled,
                 lastLogsPath, events, run, disk, killed, honors, returned,
                 errorLines, ghostVars>>

\* error.code of the error event; UNKNOWN stands for an error without code
SpawnErrorCodes == {"ENOENT", "EACCES", "EPERM", "UNKNOWN"}

\* a slip of FormatSpawnError: no text for the codes without a hint of
\* their own
FormatSpawnError_KnownOnly(code) ==
  IF code = "ENOENT"
  THEN <<"XCI error: failed to start (ENOENT)">>
  ELSE IF code = "EACCES"
  THEN <<"XCI error: failed to execute (EACCES)">>
  ELSE <<>>

\* formatSpawnError: the lines of the text it returns, always one
FormatSpawnError(code) ==
  IF code = "ENOENT"
  THEN <<"XCI error: failed to start (ENOENT)">>
  ELSE IF code = "EACCES"
  THEN <<"XCI error: failed to execute (EACCES)">>
  ELSE <<"XCI error: failed to spawn (" \o code \o ")">>

\* error event of a child that could not be spawned: the hint goes to the
\* log and to the live output, and the job settles with 1
ChildError ==
  /\ pc = "running"
  /\ proc[index] = "spawnError"
  /\ \E code \in SpawnErrorCodes :
       errorLines' = [errorLines EXCEPT
                        ![index] = @ \o FormatSpawnError(code)]
  /\ Finish(FailureCode)
  /\ UNCHANGED <<auxVars, plan, aborted, index, hasFailure, hasCanceled,
                 lastLogsPath, events, run, disk, proc, killed, honors,
                 returned, reported, closeAborted, ghostVars>>

\* run() after `await runAct`: report the job, and on a non-zero code cancel
\* the rest and leave the loop
JobFinished ==
  /\ pc = "settled"
  /\ IF StopsLoop(exitCode)
     THEN /\ hasCanceled' = (hasCanceled \/ exitCode = CanceledCode)
          /\ hasFailure' = (hasFailure \/ exitCode # CanceledCode)
          /\ Emit(<<JobFinishedEvent(plan[index], StatusOf(exitCode),
                                     exitCode)>>
                  \o MarkRemainingCanceled(plan, index + 1))
          /\ pc' = "finish"
          /\ UNCHANGED index
     ELSE /\ Emit(<<JobFinishedEvent(plan[index], StatusOf(exitCode),
                                     exitCode)>>)
          /\ index' = NextIndex(index)
          /\ pc' = "boundary"
          /\ UNCHANGED <<hasCanceled, hasFailure>>
  /\ UNCHANGED <<auxVars, plan, aborted, exitCode, lastLogsPath, childVars,
                 returned,
                 ghostVars>>

\* a slip of RunFinish: run() returns without reporting the run
RunFinish_Silent ==
  /\ pc = "finish"
  /\ returned' = exitCode
  /\ pc' = "done"
  /\ UNCHANGED <<auxVars, plan, aborted, engineVars, events, run, disk,
                 childVars,
                 ghostVars>>

\* a slip of RunFinish: run() returns 1 for every code but 0
RunFinish_Normalized ==
  /\ pc = "finish"
  /\ Emit(<<RunFinishedEvent(RunStatus(hasFailure, hasCanceled))>>)
  /\ returned' = IF exitCode = 0 THEN 0 ELSE FailureCode
  /\ pc' = "done"
  /\ UNCHANGED <<auxVars, plan, aborted, engineVars, childVars, ghostVars>>

\* run() after the loop: report the run and return
RunFinish ==
  /\ pc = "finish"
  /\ Emit(<<RunFinishedEvent(RunStatus(hasFailure, hasCanceled))>>)
  /\ returned' = exitCode
  /\ pc' = "done"
  /\ UNCHANGED <<auxVars, plan, aborted, engineVars, childVars, ghostVars>>

Next ==
  \/ CallRun
  \/ JobBoundary
  \/ RunActEnter
  \/ Abort
  \/ \E code \in ExitCodes : ChildClose(code)
  \/ ChildError
  \/ JobFinished
  \/ RunFinish

Spec == Init /\ [][Next]_vars

\* the events of another run that reach the persister of this run
ForeignEvents(p) ==
  {[e EXCEPT !.runId = OtherRunId] :
     e \in {RunStartedEvent(p), JobsCanceledEvent(p),
            RunFinishedEvent("failed")}
          \cup {JobStartedEvent(j) : j \in Range(p)}
          \cup {JobFinishedEvent(j, "failed", FailureCode) : j \in Range(p)}}

\* the persister is handed an event that carries the id of another run
DeliverForeign(e) ==
  /\ foreign < MaxForeign
  /\ foreign' = foreign + 1
  /\ Persist(<<e>>)
  /\ UNCHANGED <<graphVars, pureVars, plan, aborted, pc, engineVars, events,
                 childVars, returned, ghostVars>>

PersisterNext ==
  \/ Next
  \/ \E e \in ForeignEvents(plan) : DeliverForeign(e)

\* the run of Spec with a persister that is also handed events of another
\* run
PersisterSpec == Init /\ [][PersisterNext]_vars

\* close event of a child that was sent SIGTERM and exits on it
TermClose ==
  /\ killed
  /\ honors
  /\ \E code \in ExitCodes : ChildClose(code)

\* The event loop runs every continuation of run() that is ready, and a
\* child that honors SIGTERM exits once it was sent; nothing makes any other
\* child exit.
FairSpec ==
  /\ Spec
  /\ WF_vars(CallRun)
  /\ WF_vars(JobBoundary)
  /\ WF_vars(RunActEnter)
  /\ WF_vars(ChildError)
  /\ WF_vars(JobFinished)
  /\ WF_vars(RunFinish)
  /\ WF_vars(TermClose)

TypeOK ==
  /\ plan \in Plans
  /\ pc \in {"idle", "boundary", "runAct", "running", "settled", "finish",
             "done"}

\* ------------------------------------------------------ the graph resolver
\* job ids of a workflow
GraphJobIds == 1..MaxGraphJobs

\* jobMap.get(jobId) of a job id the workflow does not define
NotDefined == <<0>>

\* the workflows: per job id its needs array or NotDefined, with at most
\* MaxEdges needs entries in all; an array may name a job more than once,
\* itself included
RECURSIVE NeedsFrom(_, _)
NeedsFrom(jobId, budget) ==
  IF jobId > MaxGraphJobs THEN {<<>>}
  ELSE UNION {{<<needs>> \o rest :
                 rest \in NeedsFrom(jobId + 1, budget - Len(needs))} :
              needs \in SeqsUpTo(GraphJobIds, budget)}
       \cup {<<NotDefined>> \o rest : rest \in NeedsFrom(jobId + 1, budget)}

Workflows == NeedsFrom(1, MaxEdges)

\* lists of distinct job ids
GraphInputs ==
  {s \in SeqsUpTo(GraphJobIds, MaxGraphJobs) :
     \A i, j \in 1..Len(s) : i # j => s[i] # s[j]}

\* jobMap.get(jobId) is a job
Defined(w, jobId) == jobId \in DOMAIN w /\ w[jobId] # NotDefined

\* job.needs, nothing for a job the workflow does not define
NeedsOf(w, jobId) == IF Defined(w, jobId) THEN w[jobId] ELSE <<>>

\* inDegree after the second forEach: one for every needs entry that names
\* an input id, the same id counted as often as it is named
InDegree(w, jobIds) ==
  [jobId \in Range(jobIds) |->
     Len(SelectSeq(NeedsOf(w, jobId), LAMBDA need : need \in Range(jobIds)))]

\* edges after the second forEach: per input id the Set of the input ids
\* that need it, which iterates in insertion order, the input order
Edges(w, jobIds) ==
  [need \in Range(jobIds) |->
     SelectSeq(jobIds, LAMBDA jobId : need \in Range(NeedsOf(w, jobId)))]

\* the queue before the loop: the ids of in-degree 0, in input order
InitialQueue(jobIds, degree) ==
  SelectSeq(jobIds, LAMBDA jobId : degree[jobId] = 0)

\* the inner loop over edges.get(jobId): one off the in-degree of every
\* dependent, which joins the queue when it reaches 0
RECURSIVE Release(_, _, _)
Release(nexts, degree, queue) ==
  IF nexts = <<>> THEN [degree |-> degree, queue |-> queue]
  ELSE LET next == Head(nexts)
           d == degree[next] - 1
       IN  Release(Tail(nexts), [degree EXCEPT ![next] = d],
                   IF d = 0 THEN Append(queue, next) ELSE queue)

\* the while loop: shift the queue, push to ordered, release the dependents
RECURSIVE Drain(_, _, _, _)
Drain(queue, ordered, degree, edges) ==
  IF queue = <<>> THEN ordered
  ELSE LET jobId == Head(queue)
           r == Release(edges[jobId], degree, Tail(queue))
       IN  Drain(r.queue, Append(ordered, jobId), r.degree, edges)

Missing_None(jobIds, ordered) == <<>>

\* the input ids that were never dequeued, in input order
Missing(jobIds, ordered) ==
  SelectSeq(jobIds, LAMBDA jobId : jobId \notin Range(ordered))

\* sortJobsByNeeds
SortJobsByNeeds(w, jobIds) ==
  LET degree == InDegree(w, jobIds)
      ordered == Drain(InitialQueue(jobIds, degree), <<>>, degree,
                       Edges(w, jobIds))
  IN  ordered \o Missing(jobIds, ordered)

AddExpanded_Prepend(expanded, jobId) ==
  IF jobId \in Range(expanded) THEN expanded ELSE <<jobId>> \o expanded

\* expanded.add(jobId): a Set keeps insertion order and no duplicate
AddExpanded(expanded, jobId) ==
  IF jobId \in Range(expanded) THEN expanded ELSE Append(expanded, jobId)

\* the traversal before the first call of visit
NoTrace == [threw |-> FALSE, expanded |-> <<>>, entered |-> <<>>]

\* visit(jobId) with the ids whose call of visit has not returned in
\* `stack`, and job.needs.forEach(visit). `entered` lists the calls that
\* went past both early returns. An id is added to expanded only after the
\* calls for its needs returned, so a call for an id of `stack` finds it
\* absent from expanded and starts on its needs again: the needs before the
\* one that led back here return at once as they did the first time, that
\* one recurses as it did the first time, and the recursion ends only when
\* the call stack is exhausted (RangeError), which nothing catches.
RECURSIVE Visit(_, _, _, _), VisitEach(_, _, _, _)
Visit(w, jobId, t, stack) ==
  IF t.threw \/ jobId \in Range(t.expanded) \/ ~Defined(w, jobId) THEN t
  ELSE IF jobId \in stack
       THEN [threw |-> TRUE, expanded |-> t.expanded,
             entered |-> Append(t.entered, jobId)]
       ELSE LET r == VisitEach(w, w[jobId],
                               [t EXCEPT !.entered = Append(@, jobId)],
                               stack \cup {jobId})
            IN  IF r.threw THEN r
                ELSE [r EXCEPT !.expanded = AddExpanded(@, jobId)]

VisitEach(w, jobIds, t, stack) ==
  IF jobIds = <<>> THEN t
  ELSE VisitEach(w, Tail(jobIds), Visit(w, Head(jobIds), t, stack), stack)

ExpandJobIdsWithNeeds_FirstVisit(w, selected) ==
  LET t == VisitEach(w, selected, NoTrace, {})
  IN  [t EXCEPT !.expanded = t.entered]

\* expandJobIdsWithNeeds: the traversal from the selected ids, in order
ExpandJobIdsWithNeeds(w, selected) == VisitEach(w, selected, NoTrace, {})

\* a workflow and a list of distinct job ids, before either function is
\* applied; no run is in progress
PlanInit ==
  /\ workflow \in Workflows
  /\ input \in GraphInputs
  /\ gpc = "ready"
  /\ result = <<>>
  /\ threw = FALSE
  /\ entered = <<>>
  /\ PureOff
  /\ plan = <<>>
  /\ aborted = FALSE
  /\ pc = "idle"
  /\ index = 1
  /\ exitCode = 0
  /\ hasFailure = FALSE
  /\ hasCanceled = FALSE
  /\ lastLogsPath = 0
  /\ events = <<>>
  /\ run = NoRun
  /\ disk = [id \in RunIds |-> NoRun]
  /\ foreign = 0
  /\ errorLines = <<>>
  /\ proc = <<>>
  /\ killed = FALSE
  /\ honors = FALSE
  /\ settled = FALSE
  /\ returned = Undefined
  /\ reported = <<>>
  /\ closeAborted = {}
  /\ preAborted = FALSE
  /\ sawAbortAt = 0
  /\ abortedDuring = 0

\* sortJobsByNeeds(workflow, input)
ApplySort ==
  /\ gpc = "ready"
  /\ gpc' = "sorted"
  /\ result' = SortJobsByNeeds(workflow, input)
  /\ UNCHANGED <<threw, entered>>
  /\ UNCHANGED <<workflow, input, foreign, plan, aborted, pc, events, run,
                 pureVars,
                 disk, returned, engineVars, childVars, ghostVars>>

\* expandJobIdsWithNeeds(workflow, input); nothing is returned when it
\* throws
ApplyExpand ==
  /\ gpc = "ready"
  /\ gpc' = "expanded"
  /\ LET t == ExpandJobIdsWithNeeds(workflow, input)
     IN  /\ threw' = t.threw
         /\ entered' = t.entered
         /\ result' = IF t.threw THEN <<>> ELSE t.expanded
  /\ UNCHANGED <<workflow, input, foreign, plan, aborted, pc, events, run,
                 pureVars,
                 disk, returned, engineVars, childVars, ghostVars>>

PlanNext == ApplySort \/ ApplyExpand

PlanSpec == PlanInit /\ [][PlanNext]_vars

\* no run is in progress
EngineOff ==
  /\ plan = <<>>
  /\ aborted = FALSE
  /\ pc = "idle"
  /\ index = 1
  /\ exitCode = 0
  /\ hasFailure = FALSE
  /\ hasCanceled = FALSE
  /\ lastLogsPath = 0
  /\ events = <<>>
  /\ run = NoRun
  /\ disk = [id \in RunIds |-> NoRun]
  /\ foreign = 0
  /\ errorLines = <<>>
  /\ proc = <<>>
  /\ killed = FALSE
  /\ honors = FALSE
  /\ settled = FALSE
  /\ returned = Undefined
  /\ reported = <<>>
  /\ closeAborted = {}
  /\ preAborted = FALSE
  /\ sawAbortAt = 0
  /\ abortedDuring = 0

\* the graph resolver is not called
GraphOff ==
  /\ workflow = <<>>
  /\ input = <<>>
  /\ gpc = "off"
  /\ result = <<>>
  /\ threw = FALSE
  /\ entered = <<>>

\* what an action of a pure function leaves alone
runVars == <<plan, aborted, pc, events, run, disk, foreign, returned,
             engineVars, childVars, ghostVars>>

\* ------------------------------------------------------ filterJobsForEvent
\* The words of an `if` expression.  The text searched for holds no blank,
\* so an expression contains it iff one of its words does.
IfWords == {"pull_request", "pull_request_target", "push"}

\* word.includes("pull_request")
WordIncludes(word) == word \in {"pull_request", "pull_request_target"}

\* event names
EventNames == {"pull_request", "pull_request_target", "push"}

\* job.if: absent, or a text of up to two words ("" is the empty text)
IfTexts == SeqsUpTo(IfWords, 2)

\* job.if, absent or a text
IfValues ==
  {[hasIf |-> FALSE, if |-> <<>>]}
    \cup {[hasIf |-> TRUE, if |-> text] : text \in IfTexts}

\* the jobs of a workflow; the id of a job is its place in the workflow
JobsOf(v) ==
  [i \in DOMAIN v |-> [id |-> i, hasIf |-> v[i].hasIf, if |-> v[i].if]]

\* job.if.includes("pull_request")
Includes(text) == \E k \in 1..Len(text) : WordIncludes(text[k])

\* isPullRequestOnly: `!job.if` holds for an absent and for an empty text
IsPullRequestOnly(job) ==
  IF ~job.hasIf \/ job.if = <<>> THEN FALSE ELSE Includes(job.if)

FilterJobsForEvent_AnyEvent(js, ev) ==
  SelectSeq(js, LAMBDA job : ~IsPullRequestOnly(job))

\* filterJobsForEvent
FilterJobsForEvent(js, ev) ==
  IF ev = "pull_request" THEN js
  ELSE SelectSeq(js, LAMBDA job : ~IsPullRequestOnly(job))

FilterInit ==
  /\ EngineOff
  /\ GraphOff
  /\ IoOff
  /\ EchoOff
  /\ MergeOff
  /\ ParseOff
  /\ applied = "ready"
  /\ \E n \in 0..MaxFilterJobs :
       \E v \in [1..n -> IfValues] : workflowJobs = JobsOf(v)
  /\ eventName \in EventNames
  /\ availableJobs = <<>>

\* filterJobsForEvent(workflow.jobs, eventName)
ApplyFilter ==
  /\ applied = "ready"
  /\ applied' = "filtered"
  /\ availableJobs' = FilterJobsForEvent(workflowJobs, eventName)
  /\ UNCHANGED <<workflowJobs, eventName, mergeVars, parseVars, echoVars,
                 graphVars, ioVars,
                 runVars>>

FilterNext == ApplyFilter

FilterSpec == FilterInit /\ [][FilterNext]_vars

\* ------------------------------------------------------- mergeStepStatuses
RunStatuses == {"pending", "running", "success", "failed", "canceled"}

\* step ids of a status map
MergeStepIds == 1..MaxMergeSteps

\* isFinalStatus
IsFinalStatus(status) == status \in {"success", "failed", "canceled"}

MergeEntry_PendingFirst(m, stepId, status) ==
  IF stepId \notin DOMAIN m THEN m @@ (stepId :> "pending")
  ELSE IF IsFinalStatus(m[stepId])
       THEN IF IsFinalStatus(status) /\ status # m[stepId]
            THEN [m EXCEPT ![stepId] = status]
            ELSE m
       ELSE [m EXCEPT ![stepId] = status]

MergeEntry_Overwrite(m, stepId, status) ==
  IF stepId \notin DOMAIN m THEN m @@ (stepId :> status)
  ELSE [m EXCEPT ![stepId] = status]

\* one round of the loop over Object.entries(next)
MergeEntry(m, stepId, status) ==
  IF stepId \notin DOMAIN m THEN m @@ (stepId :> status)
  ELSE IF IsFinalStatus(m[stepId])
       THEN IF IsFinalStatus(status) /\ status # m[stepId]
            THEN [m EXCEPT ![stepId] = status]
            ELSE m
       ELSE [m EXCEPT ![stepId] = status]

\* the loop over the entries of next that are still to come; integer-like
\* keys come in ascending order
RECURSIVE MergeEntries(_, _, _)
MergeEntries(m, nextMap, stepIds) ==
  IF stepIds = {} THEN m
  ELSE LET stepId == CHOOSE id \in stepIds : \A other \in stepIds : id <= other
       IN  MergeEntries(MergeEntry(m, stepId, nextMap[stepId]), nextMap,
                        stepIds \ {stepId})

\* mergeStepStatuses: the loop, started from a copy of previous
MergeStepStatuses(prev, nextMap) == MergeEntries(prev, nextMap, DOMAIN nextMap)

\* status maps: some step ids, each with a status
IsStatusMap(m) ==
  \E ids \in SUBSET MergeStepIds : \E f \in [ids -> RunStatuses] : m = f

MergeInit ==
  /\ EngineOff
  /\ GraphOff
  /\ IoOff
  /\ EchoOff
  /\ FilterOff
  /\ ParseOff
  /\ applied = "ready"
  /\ IsStatusMap(previous)
  /\ IsStatusMap(nextStatuses)
  /\ merged = <<>>

\* mergeStepStatuses(previous, next)
ApplyMerge ==
  /\ applied = "ready"
  /\ applied' = "merged"
  /\ merged' = MergeStepStatuses(previous, nextStatuses)
  /\ UNCHANGED <<previous, nextStatuses, filterVars, parseVars, echoVars,
                 graphVars, ioVars,
                 runVars>>

MergeNext == ApplyMerge

MergeSpec == MergeInit /\ [][MergeNext]_vars

\* ------------------------------------------------------------ parseStepData
\* the names steps are declared with, after normalizeStepName
StepKeys == {"a", "b"}

\* A name as a marker prints it: the stage act puts in front of it, the
\* name, and whether a bracketed qualifier follows it.
RawNames == [stage : {"", "Main", "Post"}, base : StepKeys,
             qualified : BOOLEAN]

\* normalizeStepName: the trailing bracketed qualifier and the leading
\* main/post are stripped (the result is trimmed and lowercased)
NormalizeStepName(name) == name.base

\* the name a step is declared with
DeclaredName(key) == [stage |-> "", base |-> key, qualified |-> FALSE]

\* The lines of the text after raw.split and stripAnsi, as the three
\* patterns see them: a run, success or failure marker with its name, or any
\* other line with its text ("" and " " are the lines that trim to nothing).
NoName == [stage |-> "", base |-> "", qualified |-> FALSE]
Markers == {"run", "success", "failure"}
Texts == {"", " ", "x", "y"}
Lines ==
  {[kind |-> k, name |-> n, text |-> ""] : k \in Markers, n \in RawNames}
    \cup {[kind |-> "text", name |-> NoName, text |-> t] : t \in Texts}

\* line.trim()
Trim(text) == IF text = " " THEN "" ELSE text

\* The steps of a job: the id of a step is its place in the job.  Names are
\* only compared with each other, so the first step is named a.
StepLists ==
  {s \in UNION {[1..n -> StepKeys] : n \in 1..MaxSteps} : s[1] = "a"}

\* nameToIndices.get(key), nothing for a name no step has
IndicesOf(stepList, key) ==
  LET RECURSIVE From(_)
      From(i) ==
        IF i > Len(stepList) THEN <<>>
        ELSE IF NormalizeStepName(DeclaredName(stepList[i])) = key
             THEN <<i>> \o From(i + 1)
             ELSE From(i + 1)
  IN  From(1)

\* the state of the scan before the first line; 0 stands for null and for
\* an absent entry of nameToCursor (read as 0) and of lastIndexForName
NoScan ==
  [statusMap |-> <<>>, outputMap |-> <<>>,
   nameToCursor |-> [key \in StepKeys |-> 0],
   lastIndexForName |-> [key \in StepKeys |-> 0],
   lastRunningIndex |-> 0, failedIndex |-> 0, currentIndex |-> 0]

ResolveIndex_NoCursor(s, stepList, key) ==
  LET indices == IndicesOf(stepList, key)
  IN  IF indices = <<>> THEN [index |-> 0, scan |-> s]
      ELSE [index |-> indices[1],
            scan |-> [s EXCEPT !.lastIndexForName[key] = indices[1]]]

\* resolveIndex: the index (0 for undefined) and the maps after the call
ResolveIndex(s, stepList, key) ==
  LET indices == IndicesOf(stepList, key)
      cursor == s.nameToCursor[key]
  IN  IF indices = <<>> THEN [index |-> 0, scan |-> s]
      ELSE IF cursor + 1 > Len(indices)
           THEN [index |-> s.lastIndexForName[key], scan |-> s]
           ELSE [index |-> indices[cursor + 1],
                 scan |-> [s EXCEPT
                             !.nameToCursor[key] = cursor + 1,
                             !.lastIndexForName[key] = indices[cursor + 1]]]

\* lastIndexForName.get(key) ?? resolveIndex(...)
LastOrResolve(s, stepList, key) ==
  IF s.lastIndexForName[key] # 0
  THEN [index |-> s.lastIndexForName[key], scan |-> s]
  ELSE ResolveIndex(s, stepList, key)

\* map[stepId] = value
Put(map, stepId, value) ==
  IF stepId \in DOMAIN map THEN [map EXCEPT ![stepId] = value]
  ELSE map @@ (stepId :> value)

\* slice(-MAX_LOG_LINES) of a list longer than MAX_LOG_LINES
Capped(list) ==
  IF Len(list) > MAX_LOG_LINES
  THEN SubSeq(list, Len(list) - MAX_LOG_LINES + 1, Len(list))
  ELSE list

\* the branch of a run marker
ScanRun(s, stepList, line) ==
  LET key == NormalizeStepName(line.name)
      r == ResolveIndex(s, stepList, key)
      resolved == r.index
  IN  IF resolved = 0 THEN [s EXCEPT !.currentIndex = 0]
      ELSE [r.scan EXCEPT
              !.statusMap = Put(@, resolved, "running"),
              !.lastRunningIndex = resolved,
              !.lastIndexForName[key] = resolved,
              !.currentIndex = resolved,
              !.outputMap = IF resolved \in DOMAIN @ THEN @
                            ELSE Put(@, resolved, <<>>)]

\* the branch of a success marker
ScanSuccess(s, stepList, line) ==
  LET key == NormalizeStepName(line.name)
      r == LastOrResolve(s, stepList, key)
      resolved == r.index
  IN  IF resolved = 0 THEN r.scan
      ELSE [r.scan EXCEPT
              !.statusMap = Put(@, resolved, "success"),
              !.lastRunningIndex = IF @ = resolved THEN 0 ELSE @,
              !.currentIndex = IF @ = resolved THEN 0 ELSE @]

\* the branch of a failure marker
ScanFailure(s, stepList, line) ==
  LET key == NormalizeStepName(line.name)
      r == LastOrResolve(s, stepList, key)
      resolved == r.index
  IN  IF resolved = 0 THEN r.scan
      ELSE [r.scan EXCEPT
              !.statusMap = Put(@, resolved, "failed"),
              !.failedIndex = resolved,
              !.lastIndexForName[key] = resolved,
              !.lastRunningIndex = IF @ = resolved THEN 0 ELSE @,
              !.currentIndex = IF @ = resolved THEN 0 ELSE @]

ScanText_KeepBlank(s, line) ==
  IF s.currentIndex # 0
  THEN LET stepId == s.currentIndex
           list == IF stepId \in DOMAIN s.outputMap
                   THEN s.outputMap[stepId] ELSE <<>>
       IN  [s EXCEPT !.outputMap =
                       Put(@, stepId, Capped(Append(list, line.text)))]
  ELSE s

\* the branch of any other line
ScanText(s, line) ==
  IF s.currentIndex # 0 /\ Trim(line.text) # ""
  THEN LET stepId == s.currentIndex
           list == IF stepId \in DOMAIN s.outputMap
                   THEN s.outputMap[stepId] ELSE <<>>
       IN  [s EXCEPT !.outputMap =
                       Put(@, stepId, Capped(Append(list, line.text)))]
  ELSE s

\* one round of the loop over the lines
ScanLine(s, stepList, line) ==
  CASE line.kind = "run" -> ScanRun(s, stepList, line)
    [] line.kind = "success" -> ScanSuccess(s, stepList, line)
    [] line.kind = "failure" -> ScanFailure(s, stepList, line)
    [] OTHER -> ScanText(s, line)

\* every step without a status gets `status`
FillUnset(map, stepList, status) ==
  [stepId \in 1..Len(stepList) |->
     IF stepId \in DOMAIN map THEN map[stepId] ELSE status]

\* the failure point of a failed job: the step of the last failure marker,
\* else the step left running, else none (0)
FailurePoint(s) ==
  IF s.failedIndex = 0 /\ s.lastRunningIndex # 0 THEN s.lastRunningIndex
  ELSE s.failedIndex

\* the statuses a failed job ends with
FailedJobStatuses(s, stepList) ==
  LET failureIndex == FailurePoint(s)
      marked == IF s.failedIndex = 0 /\ s.lastRunningIndex # 0
                THEN Put(s.statusMap, s.lastRunningIndex, "failed")
                ELSE s.statusMap
  IN  IF failureIndex # 0
      THEN [stepId \in 1..Len(stepList) |->
              IF stepId \in DOMAIN marked THEN marked[stepId]
              ELSE IF stepId <= failureIndex THEN "success" ELSE "canceled"]
      ELSE FillUnset(marked, stepList, "canceled")

PostPass_AllSuccess(s, stepList, status) ==
  CASE status = "success" ->
         [stepId \in 1..Len(stepList) |-> "success"]
    [] status = "failed" -> FailedJobStatuses(s, stepList)
    [] status = "canceled" -> FillUnset(s.statusMap, stepList, "canceled")
    [] OTHER -> s.statusMap

\* the statuses parseStepData returns after the scan
PostPass(s, stepList, status) ==
  CASE status = "success" -> FillUnset(s.statusMap, stepList, "success")
    [] status = "failed" -> FailedJobStatuses(s, stepList)
    [] status = "canceled" -> FillUnset(s.statusMap, stepList, "canceled")
    [] OTHER -> s.statusMap

ParseInit ==
  /\ EngineOff
  /\ GraphOff
  /\ IoOff
  /\ EchoOff
  /\ FilterOff
  /\ MergeOff
  /\ applied = "ready"
  /\ steps \in StepLists
  /\ jobStatus \in RunStatuses
  /\ scan = NoScan
  /\ statuses = <<>>
  /\ lineCount = 0
  /\ lastLine = [kind |-> "text", name |-> NoName, text |-> ""]
  /\ runMarkers = [key \in StepKeys |-> 0]
  /\ earlyMarker = [key \in StepKeys |-> FALSE]
  /\ lastStarted = [key \in StepKeys |-> 0]
  /\ folded = <<>>

\* the loop takes the next line of the text; the view parses the buffer
\* up to that line while the job is running and folds the result
Scan(line) ==
  /\ applied = "ready"
  /\ lineCount < MaxLines
  /\ lineCount' = lineCount + 1
  /\ lastLine' = line
  /\ scan' = ScanLine(scan, steps, line)
  /\ LET key == NormalizeStepName(line.name)
     IN  /\ runMarkers' = IF line.kind = "run"
                          THEN [runMarkers EXCEPT ![key] = @ + 1]
                          ELSE runMarkers
         /\ earlyMarker' = IF /\ line.kind \in {"success", "failure"}
                              /\ runMarkers[key] = 0
                           THEN [earlyMarker EXCEPT ![key] = TRUE]
                           ELSE earlyMarker
         /\ lastStarted' = IF /\ line.kind = "run"
                              /\ scan'.currentIndex # 0
                           THEN [lastStarted EXCEPT
                                   ![key] = scan'.currentIndex]
                           ELSE lastStarted
  /\ folded' = MergeStepStatuses(folded, PostPass(scan', steps, "running"))
  /\ UNCHANGED <<applied, steps, jobStatus, statuses, filterVars, mergeVars,
                 echoVars, graphVars, ioVars,
                 runVars>>

\* the text is at its end: the pass that follows the loop
Reconcile ==
  /\ applied = "ready"
  /\ applied' = "parsed"
  /\ statuses' = PostPass(scan, steps, jobStatus)
  /\ folded' = MergeStepStatuses(folded, statuses')
  /\ UNCHANGED <<steps, jobStatus, scan, lineCount, lastLine, runMarkers,
                 earlyMarker, lastStarted, filterVars, mergeVars, echoVars,
                 graphVars, ioVars,
                 runVars>>

ParseNext ==
  \/ \E line \in Lines : Scan(line)
  \/ Reconcile

ParseSpec == ParseInit /\ [][ParseNext]_vars

\* ------------------------------------------------------------ the claims
\* positions of the events of one type
Positions(type) == {i \in 1..Len(events) : events[i].type = type}

\* positions of the events of one type about one job
JobPositions(type, jobId) ==
  {i \in Positions(type) : events[i].jobId = jobId}

\* the job ids of the job-started events, in order of emission
StartedJobs ==
  LET started == SelectSeq(events, LAMBDA e : e.type = "job-started")
  IN  [i \in 1..Len(started) |-> started[i].jobId]

\* the job ids listed by jobs-canceled events
ListedCanceled ==
  UNION {Range(events[i].jobIds) : i \in Positions("jobs-canceled")}

IsPrefix(s, t) == Len(s) <= Len(t) /\ s = SubSeq(t, 1, Len(s))

\* run-started is the first event and run-finished the last one, each once
Bracketed ==
  /\ Positions("run-started") = {1}
  /\ Positions("run-finished") = {Len(events)}

\* C1 as stated: for any plan, a call of run emits exactly one run-started,
\* before every other event, and exactly one run-finished, after every other
\* event.
C1_AnyPlanBracketed == pc = "done" => Bracketed

\* C1 amended: for any plan with at least one job, a call of run emits
\* exactly one run-started, before every other event, and exactly one
\* run-finished, after every other event; until run returns there is no
\* run-finished and never a second run-started.
C1_NonEmptyPlanBracketed ==
  /\ pc = "done" /\ Len(plan) > 0 => Bracketed
  /\ Positions("run-started") \subseteq {1}
  /\ pc # "done" => Positions("run-finished") = {}

C1_Witness ==
  /\ pc = "done"
  /\ Len(plan) >= 2
  /\ Len(events) >= 5

\* C2: jobs run strictly sequentially in plan order: the job-started events
\* follow the plan from its first job on without a gap, between two
\* job-started events lies the job-finished of the earlier job, and at most
\* one process of the run is alive at any moment.
C2_Sequential ==
  /\ IsPrefix(StartedJobs, plan)
  /\ \A i \in Positions("job-started") : \A k \in Positions("job-started") :
       i < k => \E f \in JobPositions("job-finished", events[i].jobId) :
                  i < f /\ f < k
  /\ \A i \in Positions("job-started") :
       Cardinality({f \in JobPositions("job-finished", events[i].jobId) :
                      f > i}) <= 1
  /\ Cardinality({i \in 1..Len(plan) : proc[i] = "alive"}) <= 1
  /\ \A i \in 1..Len(plan) :
       proc[i] = "alive" => pc = "running" /\ i = index

C2_Witness ==
  /\ pc = "running"
  /\ index = 3
  /\ proc[3] = "alive"
  /\ Len(StartedJobs) = 3

\* C3: when the loop finds the token aborted at the boundary of job k, no
\* job from k on gets a job-started event or a process, one jobs-canceled
\* names the jobs from k on, run-finished carries canceled and run returns
\* 130; with the token aborted before the call the events of a non-empty plan
\* are run-started, jobs-canceled, run-finished.
C3_AbortedAtBoundary ==
  /\ sawAbortAt # 0 =>
       /\ \A j \in sawAbortAt..Len(plan) :
            /\ JobPositions("job-started", plan[j]) = {}
            /\ proc[j] = "none"
       /\ Cardinality(Positions("jobs-canceled")) = 1
       /\ \A i \in Positions("jobs-canceled") :
            events[i].jobIds = SubSeq(plan, sawAbortAt, Len(plan))
       /\ pc \in {"finish", "done"}
       /\ pc = "done" =>
            /\ events[Len(events)] = RunFinishedEvent("canceled")
            /\ returned = CanceledCode
  /\ preAborted /\ Len(plan) > 0 /\ pc = "done" =>
       /\ sawAbortAt = 1
       /\ [i \in 1..Len(events) |-> events[i].type]
            = <<"run-started", "jobs-canceled", "run-finished">>

C3_Witness ==
  /\ pc = "done"
  /\ sawAbortAt = 2
  /\ Len(plan) = 3

\* C4: after a job-finished whose status is not success, the next event is
\* the jobs-canceled naming all later jobs of the plan (when there are any),
\* and no later job ever has a job-started event or a process.
C4_StopAfterNonSuccess ==
  \A f \in Positions("job-finished") :
    events[f].status # "success" =>
      \E m \in 1..Len(plan) :
        /\ plan[m] = events[f].jobId
        /\ \A i \in Positions("job-started") : i < f
        /\ \A j \in (m + 1)..Len(plan) :
             /\ proc[j] = "none"
             /\ JobPositions("job-started", plan[j]) = {}
        /\ m < Len(plan) =>
             /\ Len(events) > f
             /\ events[f + 1]
                  = JobsCanceledEvent(SubSeq(plan, m + 1, Len(plan)))

C4_Witness ==
  /\ pc = "done"
  /\ \E f \in Positions("job-finished") :
       /\ events[f].status = "failed"
       /\ events[f].jobId = plan[1]
  /\ Len(plan) = 3

\* C5: jobs-canceled is emitted at most once, it never names a job that was
\* started, and when run has returned it names exactly the planned jobs
\* without a job-started event; there is no such event when every job was
\* started.
C5_CanceledBurst ==
  /\ Cardinality(Positions("jobs-canceled")) <= 1
  /\ ListedCanceled \cap Range(StartedJobs) = {}
  /\ \A i \in Positions("jobs-canceled") : events[i].jobIds # <<>>
  /\ pc = "done" => ListedCanceled = Range(plan) \ Range(StartedJobs)

C5_Witness ==
  /\ pc = "done"
  /\ Len(StartedJobs) = 1
  /\ Cardinality(ListedCanceled) = 2

\* the job of plan index i has been reported by job-finished
Reported(i) == i < index \/ (i = index /\ pc \in {"boundary", "finish", "done"})

\* the JobRun of the run record for the job of plan index i
JobRunOf(i) == run.jobs[FindJob(run.jobs, plan[i])]

\* C6: for a job whose process exits with code c while the token is not
\* aborted, job-finished carries exit code c and status success for 0,
\* canceled for 130 and failed for any other code, and the JobRun of the
\* run record holds that status and the code c from then on.
C6_ExitCodeToStatus ==
  \A i \in 1..Len(plan) :
    LET c == reported[i]
        expected == IF c = 0 THEN "success"
                    ELSE IF c = 130 THEN "canceled" ELSE "failed"
    IN  (c \notin {Undefined, NullCode} /\ i \notin closeAborted /\ Reported(i))
          => /\ \E f \in Positions("job-finished") :
                  events[f] = [type |-> "job-finished", runId |-> PlanRunId,
                               jobId |-> plan[i], status |-> expected,
                               exitCode |-> c]
             /\ Cardinality(JobPositions("job-finished", plan[i])) = 1
             /\ JobRunOf(i).status = expected
             /\ JobRunOf(i).exitCode = c

C6_Witness ==
  /\ pc = "done"
  /\ Len(plan) = 3
  /\ reported[1] = 0
  /\ reported[2] = 2
  /\ closeAborted = {}
  /\ JobRunOf(2).exitCode = 2
  /\ JobRunOf(2).status = "failed"
  /\ JobRunOf(3).status = "canceled"
  /\ aborted

ReportedCanceled ==
  /\ pc = "done"
  /\ returned = CanceledCode
  /\ events[Len(events)] = RunFinishedEvent("canceled")

SomeJobEnded(status) ==
  \E f \in Positions("job-finished") : events[f].status = status

\* the aggregate of the job outcomes of the run
Aggregate ==
  IF SomeJobEnded("failed") THEN "failed"
  ELSE IF SomeJobEnded("canceled") \/ Positions("jobs-canceled") # {}
       THEN "canceled" ELSE "success"

\* C9: the status of run-finished is failed when a job ended failed, else
\* canceled when a job ended canceled or was listed in jobs-canceled, else
\* success.
C9_AggregateStatus ==
  \A i \in Positions("run-finished") : events[i].status = Aggregate

C9_Witness ==
  /\ pc = "done"
  /\ SomeJobEnded("failed")
  /\ Positions("jobs-canceled") # {}
  /\ events[Len(events)].status = "failed"

\* C10: the exit code run returns is 0, 1 or 130.
C10_ExitCodeDomain ==
  returned # Undefined => returned \in {0, 1, 130}

\* ------------------------------------------------- claims on the run record
\* some JobRun of the record has this status
SomeJobRun(status) ==
  \E i \in 1..Len(run.jobs) : run.jobs[i].status = status

\* the aggregate of the JobRun statuses of the record
JobRunAggregate ==
  IF SomeJobRun("failed") THEN "failed"
  ELSE IF SomeJobRun("canceled") THEN "canceled" ELSE "success"

\* C11 as stated: in every state of the run record, status is running if and
\* only if some JobRun is running, and when none is running it is the
\* aggregate of the JobRun statuses.
C11_RunningIffJobRunning ==
  run # NoRun =>
    /\ run.status = "running" <=> SomeJobRun("running")
    /\ ~SomeJobRun("running") => run.status = JobRunAggregate

\* C11 amended: the status of the run record is running from run-started
\* until run-finished is handled, whether or not a JobRun is running then;
\* once run-finished is handled no JobRun is pending or running and the
\* status is failed if a JobRun is failed, else canceled if one is canceled,
\* else success.
C11_RunningUntilRunFinished ==
  run # NoRun =>
    /\ SomeJobRun("running") => run.status = "running"
    /\ pc # "done" => run.status = "running"
    /\ pc = "done" =>
         /\ ~SomeJobRun("running")
         /\ ~SomeJobRun("pending")
         /\ run.status = JobRunAggregate

C11_Witness ==
  /\ pc = "done"
  /\ run # NoRun
  /\ run.status = "failed"
  /\ SomeJobRun("success")
  /\ SomeJobRun("canceled")

\* position of a JobRun status on the way pending, running, terminal
Rank(status) ==
  IF status = "pending" THEN 0 ELSE IF status = "running" THEN 1 ELSE 2

C13_DiskEqualsMemory ==
  /\ run # NoRun => disk[run.id] = run
  /\ run = NoRun => \A id \in RunIds : disk[id] = NoRun

C13_Witness ==
  /\ pc = "done"
  /\ foreign > 0
  /\ run # NoRun
  /\ run.id = PlanRunId
  /\ run.status = "canceled"
  /\ disk[PlanRunId] = run

\* C14: once the record of this run is built, an event of any type that
\* carries another run id changes neither the in-memory record nor the
\* run.json of this run.
C14_ForeignIgnored ==
  [][\A e \in ForeignEvents(plan) :
       (run # NoRun /\ run.id = PlanRunId /\ DeliverForeign(e))
         => (run' = run /\ disk'[PlanRunId] = disk[PlanRunId])]_vars

NoDup(s) == \A i, j \in 1..Len(s) : i # j => s[i] # s[j]

\* where x stands in s
PosIn(s, x) == CHOOSE i \in 1..Len(s) : s[i] = x

\* the ids of S and every id reachable from them over needs edges
RECURSIVE Closure(_, _)
Closure(w, S) ==
  LET T == S \cup UNION {Range(NeedsOf(w, jobId)) : jobId \in S}
  IN  IF T = S THEN S ELSE Closure(w, T)

\* the ids a job needs, directly or through other jobs
NeedsClosure(w, jobId) == Closure(w, Range(NeedsOf(w, jobId)))

\* no job needs itself, directly or through other jobs
Acyclic(w) == \A jobId \in DOMAIN w : jobId \notin NeedsClosure(w, jobId)

\* C16: for any workflow whose needs edges contain no cycle (a needs array
\* may name the same job more than once) and any list of distinct job ids,
\* sortJobsByNeeds returns every input id exactly once, and for every edge
\* "a needs b" with both in the input, b stands before a.
C16_AcyclicTopological ==
  (gpc = "sorted" /\ Acyclic(workflow)) =>
    /\ Len(result) = Len(input)
    /\ Range(result) = Range(input)
    /\ NoDup(result)
    /\ \A a, b \in Range(input) :
         b \in Range(NeedsOf(workflow, a))
           => PosIn(result, b) < PosIn(result, a)

\* the input ids a job needs
InputNeeds(jobId) == Range(NeedsOf(workflow, jobId)) \cap Range(input)

\* The jobs whose in-degree reaches zero, as a least fixed point: a job is
\* dequeued iff every input id it needs is dequeued and its needs array
\* names none of them twice (each dequeued id takes one off the in-degree,
\* which counted one per entry).
RECURSIVE Dequeued(_)
Dequeued(D) ==
  LET E == D \cup
             {jobId \in Range(input) :
                /\ InputNeeds(jobId) \subseteq D
                /\ NoDup(SelectSeq(NeedsOf(workflow, jobId),
                                   LAMBDA need : need \in Range(input)))}
  IN  IF E = D THEN D ELSE Dequeued(E)

\* C17: for any workflow, cyclic or not, and any list of distinct job ids,
\* sortJobsByNeeds returns every requested id exactly once; the jobs whose
\* in-degree never reaches zero come after all dequeued jobs, in input order
\* (a needs b, b needs a, independent c, input [a,b,c] gives [c,a,b]).
C17_LeftoverInInputOrder ==
  gpc = "sorted" =>
    LET D == Dequeued({})
        k == Cardinality(D)
    IN  /\ Len(result) = Len(input)
        /\ Range(result) = Range(input)
        /\ NoDup(result)
        /\ Range(SubSeq(result, 1, k)) = D
        /\ SubSeq(result, k + 1, Len(result))
             = SelectSeq(input, LAMBDA jobId : jobId \notin D)
        /\ (/\ workflow[1] = <<2>>
            /\ workflow[2] = <<1>>
            /\ workflow[3] = <<>>
            /\ input = <<1, 2, 3>>) => result = <<3, 1, 2>>

C17_Witness ==
  /\ gpc = "sorted"
  /\ workflow[1] = <<2>>
  /\ workflow[2] = <<1>>
  /\ workflow[3] = <<>>
  /\ input = <<1, 2, 3>>
  /\ result = <<3, 1, 2>>

\* C18: expandJobIdsWithNeeds visits each job id at most once and returns a
\* result, raising no exception, for every workflow and selection, cyclic
\* workflows included.
C18_ExpandTerminates ==
  gpc = "expanded" => (~threw /\ NoDup(entered))

\* C19: expandJobIdsWithNeeds returns, without duplicates, exactly the
\* selected job ids the workflow defines and every job the workflow defines
\* that is reachable from them over needs edges; ids the workflow does not
\* define are left out and raise no error.
C19_ExactClosure ==
  gpc = "expanded" =>
    /\ ~threw
    /\ NoDup(result)
    /\ Range(result)
         = {jobId \in Closure(workflow, Range(input)) :
              Defined(workflow, jobId)}

\* C20 as stated: expandJobIdsWithNeeds returns the closure in first-visit
\* order: each id stands at the position at which the traversal, started
\* from the selected ids in order, first reached it.
C20_FirstVisitOrder ==
  (gpc = "expanded" /\ ~threw) => result = entered

\* C20 amended: whenever expandJobIdsWithNeeds returns, the result holds the
\* ids the traversal reached, each once, in the order in which their visits
\* completed: an id stands after every id it needs, directly or through
\* other jobs, and two ids of which the first reached does not need the
\* other stand in first-visit order.
C20_CompletionOrder ==
  (gpc = "expanded" /\ ~threw) =>
    /\ NoDup(result)
    /\ NoDup(entered)
    /\ Range(result) = Range(entered)
    /\ \A x, y \in Range(result) :
         PosIn(entered, x) < PosIn(entered, y) =>
           (PosIn(result, y) < PosIn(result, x)
              <=> y \in NeedsClosure(workflow, x))

C20_Witness ==
  /\ gpc = "expanded"
  /\ workflow[1] = <<2>>
  /\ workflow[2] = <<3>>
  /\ workflow[3] = <<>>
  /\ input = <<1>>
  /\ entered = <<1, 2, 3>>
  /\ result = <<3, 2, 1>>

\* C21: in the result of expandJobIdsWithNeeds over an acyclic needs graph,
\* every job stands after all jobs it needs that are in the result
\* (selecting deploy, where deploy needs test and test needs build, gives
\* [build, test, deploy]).
C21_NeedsFirst ==
  (gpc = "expanded" /\ Acyclic(workflow)) =>
    /\ ~threw
    /\ \A a, b \in Range(result) :
         b \in Range(NeedsOf(workflow, a))
           => PosIn(result, b) < PosIn(result, a)
    /\ (/\ workflow[1] = <<>>
        /\ workflow[2] = <<1>>
        /\ workflow[3] = <<2>>
        /\ input = <<3>>) => result = <<1, 2, 3>>

C21_Witness ==
  /\ gpc = "expanded"
  /\ Acyclic(workflow)
  /\ workflow[1] = <<>>
  /\ workflow[2] = <<1>>
  /\ workflow[3] = <<2>>
  /\ input = <<3>>
  /\ result = <<1, 2, 3>>

\* the places in the workflow of the jobs an array holds
IdsOf(js) == {js[k].id : k \in 1..Len(js)}

\* the `if` expression of a job mentions pull_request
MentionsPullRequest(job) ==
  job.hasIf /\ \E k \in 1..Len(job.if) :
                 job.if[k] \in {"pull_request", "pull_request_target"}

\* C22: filterJobsForEvent returns the input jobs in their original order;
\* when eventName is not pull_request it removes exactly the jobs whose `if`
\* text contains pull_request, and when eventName is pull_request it removes
\* nothing.
C22_FilterForEvent ==
  applied = "filtered" =>
    /\ \A k \in 1..Len(availableJobs) :
         availableJobs[k] = workflowJobs[availableJobs[k].id]
    /\ \A k, l \in 1..Len(availableJobs) :
         k < l => availableJobs[k].id < availableJobs[l].id
    /\ eventName = "pull_request" => availableJobs = workflowJobs
    /\ eventName # "pull_request" =>
         IdsOf(availableJobs)
           = {i \in 1..Len(workflowJobs) :
                ~MentionsPullRequest(workflowJobs[i])}

C22_Witness ==
  /\ applied = "filtered"
  /\ eventName = "push"
  /\ Len(workflowJobs) = 3
  /\ workflowJobs[2].if = <<"push", "pull_request">>
  /\ ~workflowJobs[1].hasIf
  /\ workflowJobs[3].if = <<"push">>
  /\ availableJobs = <<workflowJobs[1], workflowJobs[3]>>

\* C23: mergeStepStatuses is idempotent: merging the same next map into the
\* result of a merge changes nothing.
C23_MergeIdempotent ==
  applied = "merged" => MergeStepStatuses(merged, nextStatuses) = merged

C23_Witness ==
  /\ applied = "merged"
  /\ DOMAIN previous = {1}
  /\ previous[1] = "success"
  /\ DOMAIN nextStatuses = {1, 2}
  /\ nextStatuses[1] = "failed"
  /\ nextStatuses[2] = "running"
  /\ merged[1] = "failed"
  /\ merged[2] = "running"

\* C24: for every step, mergeStepStatuses never replaces a terminal previous
\* status by a non-terminal one; of two different terminal statuses the next
\* one wins; a non-terminal previous status is replaced by whatever next
\* holds; a step that next does not mention keeps its previous status.
C24_MergeRules ==
  applied = "merged" =>
    /\ DOMAIN merged = DOMAIN previous \cup DOMAIN nextStatuses
    /\ \A stepId \in DOMAIN previous :
         IF stepId \notin DOMAIN nextStatuses
         THEN merged[stepId] = previous[stepId]
         ELSE LET old == previous[stepId]
                  new == nextStatuses[stepId]
              IN  /\ (old \in {"success", "failed", "canceled"}
                        /\ new \in {"pending", "running"})
                       => merged[stepId] = old
                  /\ (old \in {"success", "failed", "canceled"}
                        /\ new \in {"success", "failed", "canceled"})
                       => merged[stepId] = new
                  /\ old \in {"pending", "running"} => merged[stepId] = new

C24_Witness ==
  /\ applied = "merged"
  /\ DOMAIN previous = {1, 2}
  /\ DOMAIN nextStatuses = {1, 2}
  /\ previous[1] = "success"
  /\ nextStatuses[1] = "running"
  /\ merged[1] = "success"
  /\ previous[2] = "failed"
  /\ nextStatuses[2] = "canceled"
  /\ merged[2] = "canceled"

\* the loop has just taken a line
TookLine == applied = "ready" /\ lineCount' = lineCount + 1

\* the last n entries of a list
KeepLast(list, n) ==
  IF Len(list) > n THEN SubSeq(list, Len(list) - n + 1, Len(list)) ELSE list

\* the lines kept for a step, none when it has no list
OutputsOf(map, stepId) == IF stepId \in DOMAIN map THEN map[stepId] ELSE <<>>

\* what C25 says of the lines that are no run marker: each non-empty
\* non-marker line is appended to the outputs of the current step, an empty
\* one and a line outside any step are dropped, and the success marker of
\* the current step sets it to success and ends the attribution
AttributesLines ==
  LET line == lastLine'
      current == scan.currentIndex
  IN  /\ (line.kind = "text" /\ current # 0 /\ line.text \in {"x", "y"}) =>
           /\ scan'.outputMap[current]
                = KeepLast(Append(OutputsOf(scan.outputMap, current),
                                  line.text), MAX_LOG_LINES)
           /\ \A other \in DOMAIN scan.outputMap \ {current} :
                scan'.outputMap[other] = scan.outputMap[other]
           /\ scan'.currentIndex = current
      /\ (line.kind = "text" /\ (current = 0 \/ line.text \in {"", " "})) =>
           scan'.outputMap = scan.outputMap
      /\ (line.kind = "success" /\ current # 0
            /\ steps[current] = line.name.base) =>
           /\ scan'.statusMap[current] = "success"
           /\ scan'.currentIndex = 0
           /\ scan'.outputMap = scan.outputMap

StepsNamed(key) ==
  SelectSeq([i \in 1..Len(steps) |-> i], LAMBDA i : steps[i] = key)

\* the smaller of two numbers
Min(a, b) == IF a < b THEN a ELSE b

\* what C26 says of success and failure markers: the marker resolves to the
\* step of that name that a run marker started last
TerminalResolvesToLastStarted ==
  LET line == lastLine'
      key == line.name.base
  IN  (line.kind \in {"success", "failure"} /\ lastStarted[key] # 0) =>
        scan'.statusMap[lastStarted[key]]
          = (IF line.kind = "success" THEN "success" ELSE "failed")

\* C26 as stated: when several steps share a normalized name, the k-th run
\* marker for that name resolves to the k-th such step in declaration order,
\* and a success or failure marker for that name resolves to the most
\* recently started of those steps, also with no run marker in between.
C26_KthRunKthStep ==
  [][TookLine =>
       /\ TerminalResolvesToLastStarted
       /\ LET key == lastLine'.name.base
              named == StepsNamed(key)
          IN  (lastLine'.kind = "run" /\ runMarkers[key] < Len(named)) =>
                /\ scan'.currentIndex = named[runMarkers[key] + 1]
                /\ scan'.statusMap[named[runMarkers[key] + 1]]
                     = "running"]_vars

\* C26 amended: as stated, except that a success or failure marker that
\* comes before the first run marker for its name resolves to the first
\* step of that name and counts as a start: the k-th run marker then
\* resolves to the step after the k-th one; a run marker beyond the last
\* step of the name resolves to that last step.
C26_CursorOrder ==
  [][TookLine =>
       /\ TerminalResolvesToLastStarted
       /\ LET key == lastLine'.name.base
              named == StepsNamed(key)
              taken == runMarkers[key] + (IF earlyMarker[key] THEN 1 ELSE 0)
              target == named[Min(taken + 1, Len(named))]
          IN  /\ (lastLine'.kind = "run" /\ named # <<>>) =>
                   /\ scan'.currentIndex = target
                   /\ scan'.statusMap[target] = "running"
              /\ (/\ lastLine'.kind \in {"success", "failure"}
                  /\ named # <<>>
                  /\ runMarkers[key] = 0
                  /\ ~earlyMarker[key]) =>
                   scan'.statusMap[named[1]]
                     = (IF lastLine'.kind = "success" THEN "success"
                        ELSE "failed")]_vars

C26_Witness ==
  /\ applied = "ready"
  /\ Len(steps) >= 2
  /\ steps[1] = "a"
  /\ steps[2] = "a"
  /\ runMarkers["a"] = 2
  /\ ~earlyMarker["a"]
  /\ lineCount = 4
  /\ lastLine.kind = "failure"
  /\ scan.statusMap[1] = "success"
  /\ scan.statusMap[2] = "failed"
  /\ scan.failedIndex = 2

\* the steps the scan gave a status, and the other steps
Explicit == DOMAIN scan.statusMap

\* around a failure point, a step without an explicit status is success
\* before it and canceled after it; an explicit status is left as it is
ReconciledAround(point, marked) ==
  \A i \in 1..Len(steps) :
    statuses[i] = IF i \in marked THEN "failed"
                  ELSE IF i \in Explicit THEN scan.statusMap[i]
                  ELSE IF i < point THEN "success"
                  ELSE "canceled"

\* C27: when the job's final status is failed, the failure point is the
\* step named by a failure marker; if no failure marker was seen and a step
\* was left running, that step is marked failed and becomes the failure
\* point; every step without an explicit status before the failure point is
\* marked success and every such step after it canceled; with no failure
\* point at all, every step without a status is marked canceled.
C27_FailedJobReconciliation ==
  (applied = "parsed" /\ jobStatus = "failed") =>
    LET leftRunning == {i \in Explicit : scan.statusMap[i] = "running"}
    IN  IF scan.failedIndex # 0
          THEN ReconciledAround(scan.failedIndex, {})
        ELSE IF leftRunning # {}
          THEN \E step \in leftRunning : ReconciledAround(step, {step})
        ELSE ReconciledAround(0, {})

\* C28: when the job's final status is success, every step without an
\* explicit status is marked success; when it is canceled, every such step
\* is marked canceled; a status a marker set during the scan is left as it
\* is in both cases.
C28_FinishedJobReconciliation ==
  (applied = "parsed" /\ jobStatus \in {"success", "canceled"}) =>
    \A i \in 1..Len(steps) :
      statuses[i] = IF i \in Explicit THEN scan.statusMap[i] ELSE jobStatus

C28_Witness ==
  /\ applied = "parsed"
  /\ jobStatus = "success"
  /\ Len(steps) >= 2
  /\ 1 \in Explicit
  /\ 2 \notin Explicit
  /\ scan.statusMap[1] = "failed"
  /\ statuses[1] = "failed"
  /\ statuses[2] = "success"

\* ---- createActOutputFormatter -------------------------------------------

\* A text is a sequence of atoms: the line feed, a blank, a letter, an ANSI
\* colour code and the three words formatLine looks for.  No atom starts
\* with a bracket, so stripActJobPrefix finds no job prefix.
Atoms == {"\n", " ", "x", "ESC[0m", "::group::", "::endgroup::", "with:"}

StreamTexts == SeqsUpTo(Atoms, MaxText)

\* input.replace(ANSI_PATTERN, "")
StripAnsi(raw) == SelectSeq(raw, LAMBDA atom : atom # "ESC[0m")

RECURSIVE TrimStart(_)
TrimStart(line) ==
  IF line # <<>> /\ Head(line) = " " THEN TrimStart(Tail(line)) ELSE line

RECURSIVE TrimEnd(_)
TrimEnd(line) ==
  IF line # <<>> /\ line[Len(line)] = " "
  THEN TrimEnd(SubSeq(line, 1, Len(line) - 1))
  ELSE line

\* /^[a-zA-Z0-9_.-]+:\s+.+$/ over the atoms: letters, then the atom that
\* ends in a colon, then a blank, then at least one more atom
IsWithKeyValue(content) ==
  \E k \in 0..Len(content) :
    /\ \A j \in 1..k : content[j] = "x"
    /\ Len(content) >= k + 3
    /\ content[k + 1] = "with:"
    /\ content[k + 2] = " "

\* formatLine: the line to forward (value, when emit) and the two flags
FormatLine(flags, raw) ==
  LET body == TrimStart(StripAnsi(raw))
      kept(value) == [emit |-> TRUE, value |-> value,
                      inGroup |-> flags.inGroup,
                      inWithBlock |-> flags.inWithBlock]
  IN  IF body = <<>>
        THEN [emit |-> FALSE, value |-> <<>>, inGroup |-> flags.inGroup,
              inWithBlock |-> FALSE]
      ELSE IF \E i \in 1..Len(body) : body[i] = "::endgroup::"
        THEN [emit |-> FALSE, value |-> <<>>, inGroup |-> FALSE,
              inWithBlock |-> FALSE]
      ELSE IF body[1] = "::group::" /\ Len(body) >= 2
        THEN [emit |-> TRUE,
              value |-> <<"▾ ">> \o TrimEnd(TrimStart(Tail(body))),
              inGroup |-> TRUE, inWithBlock |-> FALSE]
      ELSE IF body = <<"with:">>
        THEN [emit |-> TRUE, value |-> <<"   ">> \o body,
              inGroup |-> flags.inGroup, inWithBlock |-> TRUE]
      ELSE IF flags.inWithBlock /\ IsWithKeyValue(body)
        THEN kept(<<"     ">> \o body)
      ELSE IF flags.inGroup
        THEN [kept(<<"   ">> \o body) EXCEPT !.inWithBlock = FALSE]
      ELSE [kept(body) EXCEPT !.inWithBlock = FALSE]

\* buffer.split("\n")
RECURSIVE SplitLines(_)
SplitLines(raw) ==
  IF \E i \in 1..Len(raw) : raw[i] = "\n"
  THEN LET first == CHOOSE i \in 1..Len(raw) :
                      /\ raw[i] = "\n"
                      /\ \A j \in 1..(i - 1) : raw[j] # "\n"
       IN  <<SubSeq(raw, 1, first - 1)>>
             \o SplitLines(SubSeq(raw, first + 1, Len(raw)))
  ELSE <<raw>>

\* the loop of collect over the lines: what it forwards, each formatted
\* line followed by a line feed, and the flags it leaves
RECURSIVE FormatLines(_, _)
FormatLines(flags, lines) ==
  IF lines = <<>>
  THEN [out |-> <<>>, inGroup |-> flags.inGroup,
        inWithBlock |-> flags.inWithBlock]
  ELSE LET one == FormatLine(flags, Head(lines))
           rest == FormatLines(one, Tail(lines))
       IN  [rest EXCEPT
              !.out = (IF one.emit THEN one.value \o <<"\n">> ELSE <<>>)
                        \o @]

\* collect with no buffer: every piece of the chunk is formatted at once
Collect_NoBuffer(fmt, raw, flushRemainder) ==
  LET done == FormatLines(fmt,
                          SelectSeq(SplitLines(raw),
                                    LAMBDA line : line # <<>>))
  IN  [buffer |-> <<>>, inGroup |-> done.inGroup,
       inWithBlock |-> done.inWithBlock, out |-> done.out]

\* collect(input, flushRemainder): the formatter after the call and the
\* text the call returns
Collect(fmt, raw, flushRemainder) ==
  LET lines == SplitLines(fmt.buffer \o raw)
      remainder == lines[Len(lines)]
      whole == SubSeq(lines, 1, Len(lines) - 1)
      taken == IF flushRemainder /\ remainder # <<>>
               THEN Append(whole, remainder) ELSE whole
      done == FormatLines(fmt, taken)
  IN  [buffer |-> IF flushRemainder THEN <<>> ELSE remainder,
       inGroup |-> done.inGroup, inWithBlock |-> done.inWithBlock,
       out |-> done.out]

NewFormatter == [buffer |-> <<>>, inGroup |-> FALSE, inWithBlock |-> FALSE]

FormatInit ==
  /\ EngineOff
  /\ GraphOff
  /\ IoOff
  /\ FilterOff
  /\ MergeOff
  /\ ParseOff
  /\ ArgsOff
  /\ applied = "ready"
  /\ streamText \in StreamTexts
  /\ pushed = 0
  /\ formatter = NewFormatter
  /\ forwarded = <<>>
  /\ splitLine = FALSE

\* a data event with the next n atoms of the stream: formatter.push(text),
\* forwarded to onOutput when not empty
Push(n) ==
  /\ applied = "ready"
  /\ pushed + n <= Len(streamText)
  /\ LET call == Collect(formatter, SubSeq(streamText, pushed + 1,
                                           pushed + n), FALSE)
     IN  /\ formatter' = [buffer |-> call.buffer, inGroup |-> call.inGroup,
                          inWithBlock |-> call.inWithBlock]
         /\ forwarded' = forwarded \o call.out
         /\ splitLine' = (splitLine \/ (/\ call.buffer # <<>>
                                        /\ pushed + n < Len(streamText)))
  /\ pushed' = pushed + n
  /\ UNCHANGED <<applied, streamText, argVars, filterVars, mergeVars,
                 parseVars, graphVars, ioVars,
                 runVars>>

\* the close event, after the last data event: formatter.flush()
Flush ==
  /\ applied = "ready"
  /\ pushed = Len(streamText)
  /\ applied' = "flushed"
  /\ LET call == Collect(formatter, <<>>, TRUE)
     IN  /\ formatter' = [buffer |-> call.buffer, inGroup |-> call.inGroup,
                          inWithBlock |-> call.inWithBlock]
         /\ forwarded' = forwarded \o call.out
  /\ UNCHANGED <<streamText, pushed, splitLine, argVars, filterVars,
                 mergeVars, parseVars, graphVars, ioVars,
                 runVars>>

FormatNext ==
  \/ \E n \in 1..MaxText : Push(n)
  \/ Flush

FormatSpec == FormatInit /\ [][FormatNext]_vars

\* the text a fresh formatter forwards when the whole stream is pushed in
\* one call and then flushed
ForwardedAtOnce ==
  LET whole == Collect(NewFormatter, streamText, FALSE)
      last == Collect(whole, <<>>, TRUE)
  IN  whole.out \o last.out

\* the source lines of the stream: the text between two line feeds, and
\* the text after the last one when there is any
SourceLines ==
  LET lines == SplitLines(streamText)
  IN  IF lines[Len(lines)] = <<>> THEN SubSeq(lines, 1, Len(lines) - 1)
      ELSE lines

\* C29: for any text of one output stream and any way of cutting it into
\* chunks, what the formatter forwards over all push calls and the final
\* flush is what it forwards when the whole text is pushed at once: the
\* formatted forms of the whole source lines, in order, none in two pieces.
C29_ChunkIndependent ==
  applied = "flushed" =>
    /\ forwarded = ForwardedAtOnce
    /\ forwarded = FormatLines(NewFormatter, SourceLines).out

C29_Witness ==
  /\ applied = "flushed"
  /\ splitLine
  /\ streamText = <<"::group::", "x", "\n", "x">>
  /\ forwarded = <<"▾ ", "x", "\n", "   ", "x", "\n">>

\* ---- buildActArgs and the command line written to the log ---------------

\* An argument is the text before its first "=" (head), whether it has an
\* "=" (eq), and the text after it (rest).
Arg(word) == [head |-> word, eq |-> FALSE, rest |-> ""]
Pair(key, value) == [head |-> key, eq |-> TRUE, rest |-> value]

RedactFlags == {"--secret-file", "--env-file", "--var-file"}

\* texts a user can give as a path or as a matrix item; the matrix prompt
\* takes any text between commas
Values == {"v", "a b", "--env-file"}

\* the texts that hold a blank
Spaced == {"a b"}

\* arguments passed through to act
ExtraArgs ==
  {Arg("--env-file"), Arg("s"), Arg("--secret"), Pair("--secret-file", "s")}

\* the context argument; "" is a field that is not set
Contexts ==
  [eventName : {"push"},
   workflowsPath : {".github/workflows"},
   jobId : {"build"},
   eventPayloadPath : {"", "v"},
   artifactDir : {"", "v"},
   containerArchitecture : {"", "arm64", "linux/amd64"},
   platformMap : SeqsUpTo({[key |-> "ubuntu-latest", value |-> "img"]}, 1),
   envFile : {""} \cup Values,
   varsFile : {"", "v"},
   secretsFile : {"", "v"},
   extraArgs : SeqsUpTo(ExtraArgs, MaxExtraArgs)]

\* flag and value when the value is set
Optional(flag, value) == IF value = "" THEN <<>> ELSE <<Arg(flag), Arg(value)>>

RECURSIVE Repeated(_, _)
Repeated(flag, items) ==
  IF items = <<>> THEN <<>>
  ELSE <<Arg(flag), Head(items)>> \o Repeated(flag, Tail(items))

BuildActArgs(ctx, jobId, items) ==
  <<Arg("act"), Arg(ctx.eventName), Arg("--workflows"),
    Arg(ctx.workflowsPath), Arg("--job"), Arg(jobId), Arg("--rm")>>
    \o Optional("--eventpath", ctx.eventPayloadPath)
    \o Repeated("--matrix", [i \in 1..Len(items) |-> Arg(items[i])])
    \o (IF ctx.artifactDir = "" THEN <<>>
        ELSE <<Arg("--artifact-server-path"), Arg(ctx.artifactDir),
               Arg("--artifact-server-addr"), Arg("127.0.0.1"),
               Arg("--artifact-server-port"), Arg("0")>>)
    \o Optional("--container-architecture",
                IF ctx.containerArchitecture \in {"", "linux/amd64"}
                THEN ctx.containerArchitecture
                ELSE "linux/" \o ctx.containerArchitecture)
    \o Repeated("--platform",
                [i \in 1..Len(ctx.platformMap) |->
                   Pair(ctx.platformMap[i].key, ctx.platformMap[i].value)])
    \o Optional("--env-file", ctx.envFile)
    \o Optional("--var-file", ctx.varsFile)
    \o Optional("--secret-file", ctx.secretsFile)
    \o ctx.extraArgs

\* the loop of redactActArgs from index i, 1-based
RECURSIVE RedactFrom(_, _)
RedactFrom(redacted, i) ==
  IF i > Len(redacted) THEN redacted
  ELSE LET current == redacted[i]
       IN  IF /\ ~current.eq
              /\ current.head \in RedactFlags
              /\ i + 1 <= Len(redacted)
             THEN RedactFrom([redacted EXCEPT ![i + 1] = Arg("<redacted>")],
                             i + 2)
           ELSE IF current.eq /\ current.head \in RedactFlags
             THEN RedactFrom([redacted EXCEPT
                                ![i] = Pair(current.head, "<redacted>")],
                             i + 1)
           ELSE RedactFrom(redacted, i + 1)

RedactActArgs(list) == RedactFrom(list, 1)

\* quoteArg: an argument with a blank is written as a JSON string, which
\* puts it between double quotes
QuoteArg(value) ==
  [head |-> value.head, eq |-> value.eq, rest |-> value.rest,
   quoted |-> (value.head \in Spaced \/ value.rest \in Spaced)]

\* formatActCommand: the arguments as written, in order; the log has them
\* on one line with a blank between two of them
FormatActCommand(list) ==
  LET redacted == RedactActArgs(list)
  IN  [i \in 1..Len(redacted) |-> QuoteArg(redacted[i])]

ArgsInit ==
  /\ EngineOff
  /\ GraphOff
  /\ IoOff
  /\ FilterOff
  /\ MergeOff
  /\ ParseOff
  /\ FormatOff
  /\ applied = "ready"
  /\ context \in Contexts
  /\ matrix \in SeqsUpTo(Values, MaxMatrix)
  /\ args = <<>>
  /\ echoed = <<>>

\* buildActArgs(context, job.jobId, job.matrix ?? null)
Build ==
  /\ applied = "ready"
  /\ applied' = "built"
  /\ args' = BuildActArgs(context, context.jobId, matrix)
  /\ UNCHANGED <<context, matrix, echoed, formatVars, filterVars, mergeVars,
                 parseVars, graphVars, ioVars,
                 runVars>>

\* runAct writes the command line to the log
Echo ==
  /\ applied = "built"
  /\ applied' = "echoed"
  /\ echoed' = FormatActCommand(args)
  /\ UNCHANGED <<context, matrix, args, formatVars, filterVars, mergeVars,
                 parseVars, graphVars, ioVars,
                 runVars>>

ArgsNext == Build \/ Echo

ArgsSpec == ArgsInit /\ [][ArgsNext]_vars

\* the argument a written argument shows, without the quotes
Shown(written) ==
  [head |-> written.head, eq |-> written.eq, rest |-> written.rest]

\* where the values of the builder's own file arguments are in args
OwnFileValues ==
  LET own == Len(args) - Len(context.extraArgs)
      secret == IF context.secretsFile = "" THEN 0 ELSE 2
      var == IF context.varsFile = "" THEN 0 ELSE 2
  IN  {own : x \in {context.secretsFile} \ {""}}
        \cup {own - secret : x \in {context.varsFile} \ {""}}
        \cup {own - secret - var : x \in {context.envFile} \ {""}}

\* where the values of file arguments are among the arguments passed
\* through, read from left to right from position i of args
RECURSIVE PassedFileValues(_)
PassedFileValues(i) ==
  IF i >= Len(args) THEN {}
  ELSE IF ~args[i].eq /\ args[i].head \in RedactFlags
    THEN {i + 1} \cup PassedFileValues(i + 2)
  ELSE PassedFileValues(i + 1)

FileValues ==
  OwnFileValues
    \cup PassedFileValues(Len(args) - Len(context.extraArgs) + 1)

\* C30: for every argument list the argument builder can produce, the
\* command line written to the log has as many arguments, shows the value of
\* each env-file, var-file and secret-file argument as <redacted>, also in
\* the inline flag=value form, and shows every other argument unchanged.
C30_EchoRedactsFileValues ==
  applied = "echoed" =>
    /\ Len(echoed) = Len(args)
    /\ \A i \in 1..Len(args) :
         Shown(echoed[i])
           = IF i \in FileValues THEN Arg("<redacted>")
             ELSE IF args[i].eq /\ args[i].head \in RedactFlags
               THEN Pair(args[i].head, "<redacted>")
             ELSE args[i]

\* ------------------------------------------------ claims on the whole run
\* a record that no event will change: its run is over and so is each job
Terminal(r) ==
  /\ r.status \in {"success", "failed", "canceled"}
  /\ \A i \in 1..Len(r.jobs) : r.jobs[i].status \notin {"pending", "running"}

\* C35: when run returns and the persister was its event callback (plan
\* with distinct job ids), the persisted record is terminal: its status is
\* the one carried by run-finished and no JobRun is pending or running.
C35_PersistedTerminal ==
  pc = "done" =>
    \A id \in RunIds :
      disk[id] # NoRun =>
        /\ Terminal(disk[id])
        /\ Positions("run-finished") # {}
        /\ \A i \in Positions("run-finished") :
             disk[id].status = events[i].status

C35_Witness ==
  /\ pc = "done"
  /\ Len(plan) = 3
  /\ disk[PlanRunId] # NoRun
  /\ disk[PlanRunId].status = "failed"
  /\ disk[PlanRunId].jobs[1].status = "success"
  /\ disk[PlanRunId].jobs[2].status = "failed"
  /\ disk[PlanRunId].jobs[3].status = "canceled"

\* C38: run on a plan with no jobs returns exit code 1 with an empty logs
\* path, emits no event at all and spawns no process.
C38_EmptyPlan ==
  (pc = "done" /\ Len(plan) = 0) =>
    /\ returned = 1
    /\ lastLogsPath = 0
    /\ events = <<>>
    /\ run = NoRun
    /\ \A i \in DOMAIN proc : proc[i] = "none"

C38_Witness ==
  /\ pc = "done"
  /\ plan = <<>>
  /\ returned = 1
  /\ events = <<>>

\* C39: the exit code run returns agrees with the status of run-finished:
\* it is 0 exactly when the status is success, 130 exactly when it is
\* canceled, and a value other than 0 and 130 exactly when it is failed.
C39_ExitCodeAgrees ==
  pc = "done" =>
    \A i \in Positions("run-finished") :
      /\ returned = 0 <=> events[i].status = "success"
      /\ returned = 130 <=> events[i].status = "canceled"
      /\ returned \notin {0, 130} <=> events[i].status = "failed"

C39_Witness ==
  /\ pc = "done"
  /\ returned = 2
  /\ Len(StartedJobs) = 2
  /\ events[Len(events)].type = "run-finished"
  /\ events[Len(events)].status = "failed"

\* C36: when parseStepData is called with a terminal job status (success,
\* failed or canceled), every step of the job has a terminal status in the
\* result: no step is left without a status and none is left running.
C36_AllStepsTerminal ==
  (applied = "parsed" /\ IsFinalStatus(jobStatus)) =>
    /\ DOMAIN statuses = 1..Len(steps)
    /\ \A i \in 1..Len(steps) : IsFinalStatus(statuses[i])

\* C37: parsing successive growing prefixes of one job's output and folding
\* the results with mergeStepStatuses ends, once the full buffer has been
\* parsed with the job's final status, with the same status for every step
\* as a single parse of the full buffer with that status.
C37_FoldEqualsSingleParse ==
  (applied = "parsed" /\ IsFinalStatus(jobStatus)) =>
    \A i \in 1..Len(steps) :
      /\ i \in DOMAIN folded
      /\ folded[i] = statuses[i]

\* ---- runAct: the log, the live output and the storage hint --------------

StreamNames == {"stdout", "stderr"}

\* the characters the child writes to a stream: a line feed, a letter of
\* one byte, a character of two bytes, and on stderr the text of a storage
\* error of the Docker daemon
OutChars == {"\n", "o"}
ErrChars == {"\n", "e", "é", "daemon-io"}

\* the bytes of a text
RECURSIVE Encode(_)
Encode(chars) ==
  IF chars = <<>> THEN <<>>
  ELSE (IF Head(chars) = "é" THEN <<"0xC3", "0xA9">> ELSE <<Head(chars)>>)
         \o Encode(Tail(chars))

\* chunk.toString(): the text of a chunk; a byte that is no whole character
\* within the chunk becomes the replacement character
RECURSIVE Decode(_)
Decode(bytes) ==
  IF bytes = <<>> THEN <<>>
  ELSE IF Head(bytes) = "0xC3"
    THEN IF Len(bytes) >= 2 /\ bytes[2] = "0xA9"
         THEN <<"é">> \o Decode(Tail(Tail(bytes)))
         ELSE <<"U+FFFD">> \o Decode(Tail(bytes))
  ELSE IF Head(bytes) = "0xA9"
    THEN <<"U+FFFD">> \o Decode(Tail(bytes))
  ELSE <<Head(bytes)>> \o Decode(Tail(bytes))

\* looksLikeDockerStorageError
LooksLikeDockerStorageError(chars) ==
  \E i \in 1..Len(chars) : chars[i] = "daemon-io"

\* the hint of maybeHintDockerError
DockerHint == <<"XCI note: Docker reported a storage I/O error.", "\n">>

\* a slip of MaybeHintDockerError: the flag is not consulted
MaybeHintDockerError_EveryChunk(hinted, chars) ==
  IF LooksLikeDockerStorageError(chars) THEN DockerHint ELSE <<>>

\* maybeHintDockerError: what it writes
MaybeHintDockerError(hinted, chars) ==
  IF ~hinted /\ LooksLikeDockerStorageError(chars) THEN DockerHint ELSE <<>>

\* the characters of one write, each with the handler that wrote it and
\* the stream it was handed to onOutput as
Written(handler, source, chars) ==
  [i \in 1..Len(chars) |->
     [handler |-> handler, source |-> source, char |-> chars[i]]]

\* the arguments runAct is called with
StreamContext ==
  [eventName |-> "push", workflowsPath |-> ".github/workflows",
   jobId |-> "build", eventPayloadPath |-> "", artifactDir |-> "",
   containerArchitecture |-> "", platformMap |-> <<>>, envFile |-> "v",
   varsFile |-> "", secretsFile |-> "", extraArgs |-> <<>>]

\* an argument as the log shows it
ShownText(written) ==
  LET whole == IF written.eq THEN written.head \o "=" \o written.rest
               ELSE written.head
  IN  IF written.quoted THEN "\"" \o whole \o "\"" ELSE whole

\* `$ ${formatActCommand(args)}\n`
CommandLine ==
  LET shown == FormatActCommand(BuildActArgs(StreamContext,
                                             StreamContext.jobId, <<>>))
  IN  <<"$">> \o [i \in 1..Len(shown) |-> ShownText(shown[i])] \o <<"\n">>

StreamInit ==
  /\ EngineOff
  /\ GraphOff
  /\ FilterOff
  /\ MergeOff
  /\ ParseOff
  /\ EchoOff
  /\ StoreOff
  /\ applied = "ready"
  /\ \E out \in SeqsUpTo(OutChars, MaxOutText) :
       \E err \in SeqsUpTo(ErrChars, MaxErrText) :
         streamBytes = [stdout |-> Encode(out), stderr |-> Encode(err)]
  /\ received = [stdout |-> 0, stderr |-> 0]
  /\ logFile = <<>>
  /\ liveOutput = <<>>
  /\ dockerHinted = FALSE
  /\ actFormatter = NewFormatter
  /\ jobExit = [reported |-> Undefined, resolved |-> Undefined]

\* runAct up to the spawn: the command line goes to the log and to the
\* live output
WriteCommand ==
  /\ applied = "ready"
  /\ applied' = "spawned"
  /\ logFile' = Written("command", "stdout", CommandLine)
  /\ liveOutput' = Written("command", "stdout", CommandLine)
  /\ UNCHANGED <<streamBytes, received, dockerHinted, actFormatter, jobExit,
                 storeVars, echoVars, filterVars, mergeVars, parseVars,
                 graphVars, runVars>>

\* a data event of a stream with its next n bytes
DataEvent(stream, n) ==
  /\ applied = "spawned"
  /\ received[stream] + n <= Len(streamBytes[stream])
  /\ LET chars == Decode(SubSeq(streamBytes[stream], received[stream] + 1,
                                received[stream] + n))
         hint == MaybeHintDockerError(dockerHinted, chars)
         call == Collect(actFormatter, chars, FALSE)
     IN  /\ logFile' = logFile \o Written(stream, stream, chars)
                         \o Written("hint", "stderr", hint)
         /\ liveOutput' = liveOutput \o Written("hint", "stderr", hint)
                            \o Written(stream, stream, call.out)
         /\ dockerHinted' = (dockerHinted
                               \/ LooksLikeDockerStorageError(chars))
         /\ actFormatter' = [buffer |-> call.buffer,
                             inGroup |-> call.inGroup,
                             inWithBlock |-> call.inWithBlock]
  /\ received' = [received EXCEPT ![stream] = @ + n]
  /\ UNCHANGED <<applied, streamBytes, jobExit, storeVars, echoVars,
                 filterVars, mergeVars, parseVars, graphVars, runVars>>

\* the close event, after the streams have ended: the formatter is flushed
\* and the promise resolves
CloseEvent(code) ==
  /\ applied = "spawned"
  /\ \A stream \in StreamNames :
       received[stream] = Len(streamBytes[stream])
  /\ applied' = "closed"
  /\ LET call == Collect(actFormatter, <<>>, TRUE)
     IN  /\ liveOutput' = liveOutput \o Written("close", "stdout", call.out)
         /\ actFormatter' = [buffer |-> call.buffer,
                             inGroup |-> call.inGroup,
                             inWithBlock |-> call.inWithBlock]
  /\ jobExit' = [reported |-> code, resolved |-> CloseCode(FALSE, code)]
  /\ UNCHANGED <<streamBytes, received, logFile, dockerHinted, storeVars,
                 echoVars, filterVars, mergeVars, parseVars, graphVars,
                 runVars>>

StreamNext ==
  \/ WriteCommand
  \/ \E stream \in StreamNames :
       \E n \in 1..(2 * MaxErrText) : DataEvent(stream, n)
  \/ \E code \in ExitCodes : CloseEvent(code)

StreamSpec == StreamInit /\ [][StreamNext]_vars

\* how often the hint stands in a list of written characters
HintCount(written) ==
  Cardinality({i \in 1..Len(written) :
                 /\ written[i].handler = "hint"
                 /\ written[i].char = DockerHint[1]})

\* the storage errors among the bytes delivered so far
StorageErrors ==
  Cardinality({i \in 1..received.stderr :
                 streamBytes.stderr[i] = "daemon-io"})

\* C32: for every job, however many output chunks match the daemon storage
\* I/O error heuristic, the hint line is appended to the log and to the
\* live output at most once, and the job's exit code and status are the
\* same as they would be without the hint.
C32_HintOnce ==
  /\ HintCount(logFile) <= 1
  /\ HintCount(liveOutput) <= 1
  /\ applied = "closed" =>
       /\ jobExit.resolved
            = (IF jobExit.reported = NullCode THEN 1 ELSE jobExit.reported)
       /\ StatusOf(jobExit.resolved)
            = (IF jobExit.reported = 0 THEN "success"
               ELSE IF jobExit.reported = 130 THEN "canceled" ELSE "failed")

C32_Witness ==
  /\ applied = "closed"
  /\ StorageErrors = 2
  /\ \E i \in 1..Len(logFile) : \E k \in (i + 1)..Len(logFile) :
       /\ logFile[i].handler = "hint"
       /\ logFile[k].char = "daemon-io"
  /\ HintCount(logFile) = 1
  /\ HintCount(liveOutput) = 1
  /\ jobExit.reported = 2
  /\ jobExit.resolved = 2

\* the characters a handler wrote, in order
CharsOf(written, handlers) ==
  LET kept == SelectSeq(written, LAMBDA w : w.handler \in handlers)
  IN  [i \in 1..Len(kept) |-> kept[i].char]

\* C33: the per-job log starts with the redacted invocation command line
\* and then contains every stdout and stderr chunk exactly as received, in
\* arrival order, with chunks of the same stream keeping their relative
\* order.
C33_LogVerbatim ==
  applied \in {"spawned", "closed"} =>
    /\ Len(logFile) >= Len(CommandLine)
    /\ CharsOf(SubSeq(logFile, 1, Len(CommandLine)), {"command"})
         = <<"$", "act", "push", "--workflows", ".github/workflows",
             "--job", "build", "--rm", "--env-file", "<redacted>", "\n">>
    /\ \A stream \in StreamNames :
         Encode(CharsOf(logFile, {stream}))
           = SubSeq(streamBytes[stream], 1, received[stream])

\* the complete lines of the text received from a stream: the terminated
\* ones, and the last one once the stream has ended
LinesOfStream(stream) ==
  LET lines == SplitLines(CharsOf(logFile, {stream}))
  IN  IF applied = "closed" /\ lines[Len(lines)] # <<>> THEN lines
      ELSE SubSeq(lines, 1, Len(lines) - 1)

\* the lines handed to onOutput by the data handlers and the close handler
ForwardedLines ==
  LET lines == SplitLines(CharsOf(liveOutput, {"stdout", "stderr", "close"}))
  IN  SubSeq(lines, 1, Len(lines) - 1)

\* the formatted form of a line, whatever the formatter's flags are
IsFormOf(shown, line) ==
  \E inGroup \in BOOLEAN, inWithBlock \in BOOLEAN :
    LET made == FormatLine([inGroup |-> inGroup,
                            inWithBlock |-> inWithBlock], line)
    IN  made.emit /\ made.value = shown

\* C34: when stdout and stderr chunks of one job arrive interleaved in any
\* order, every line forwarded to the live-output callback is the formatted
\* form of a complete line of exactly one of the two streams: an unfinished
\* line of one stream is never joined with text of the other stream.
C34_NoJoinedLines ==
  \A k \in 1..Len(ForwardedLines) :
    \E stream \in StreamNames :
      \E i \in 1..Len(LinesOfStream(stream)) :
        IsFormOf(ForwardedLines[k], LinesOfStream(stream)[i])

\* ---- the run record store: where its methods create and write ----

\* the store's base directory after path.resolve: /w/runs
BaseDir == <<"w", "runs">>

\* the segments of a run id, and the job ids of a log file
SegmentNames == {"..", ".", "a", "..a", "runs"}
StoreJobIds == {"build", ".."}

\* a run id as a path: absolute or not, and its segments
RunIdPaths ==
  [absolute : BOOLEAN, segs : SeqsUpTo(SegmentNames, MaxSegments)]

\* the names that begin with two dots
DottedNames == {"..", "..a", "..-hash.log"}

\* the normal form of segments put after a directory
RECURSIVE Normalize(_, _)
Normalize(dir, segs) ==
  IF segs = <<>> THEN dir
  ELSE LET seg == Head(segs)
           moved == IF seg = "." THEN dir
                    ELSE IF seg # ".." THEN Append(dir, seg)
                    ELSE IF dir = <<>> THEN dir
                    ELSE SubSeq(dir, 1, Len(dir) - 1)
       IN  Normalize(moved, Tail(segs))

\* path.resolve(from, child): an absolute child replaces the directory
PathResolve(from, child) ==
  IF child.absolute THEN Normalize(<<>>, child.segs)
  ELSE Normalize(from, child.segs)

\* path.join(from, child): the child is appended, absolute or not
PathJoin(from, child) == Normalize(from, child.segs)

\* path.relative(from, to) of two resolved paths
PathRelative(from, to) ==
  LET shared == CHOOSE c \in 0..Len(from) :
                  /\ c <= Len(to)
                  /\ SubSeq(from, 1, c) = SubSeq(to, 1, c)
                  /\ \/ c = Len(from)
                     \/ c = Len(to)
                     \/ from[c + 1] # to[c + 1]
  IN  [i \in 1..(Len(from) - shared) |-> ".."]
        \o SubSeq(to, shared + 1, Len(to))

\* ensureWithinBase: the resolved path, or an error when the relative path
\* begins with two dots (a relative path is never absolute)
EnsureWithinBase(from, child) ==
  LET resolved == PathResolve(from, child)
      rel == PathRelative(from, resolved)
  IN  [threw |-> rel # <<>> /\ Head(rel) \in DottedNames,
       path |-> resolved]

\* getJobLogFileName: the sanitized job id, a hash, and the suffix
GetJobLogFileName(jobId) == jobId \o "-hash.log"

\* createRunDir: the base directory, then the checked run directory
RunDirMade(runId) ==
  LET checked == EnsureWithinBase(BaseDir, runId)
  IN  [threw |-> checked.threw,
       made |-> IF checked.threw THEN {BaseDir}
                ELSE {BaseDir, checked.path},
       path |-> checked.path]

\* createLogsDir, createArtifactsDir: a directory in the run directory
SubDirMade(runId, name) ==
  LET runDir == RunDirMade(runId)
  IN  IF runDir.threw THEN runDir
      ELSE [threw |-> FALSE,
            made |-> runDir.made \cup {Append(runDir.path, name)},
            path |-> Append(runDir.path, name)]

\* createLogFile: the logs directory, then the checked file name
LogFileMade(runId, jobId) ==
  LET logsDir == SubDirMade(runId, "logs")
      name == [absolute |-> FALSE, segs |-> <<GetJobLogFileName(jobId)>>]
  IN  IF logsDir.threw THEN logsDir
      ELSE [threw |-> EnsureWithinBase(logsDir.path, name).threw,
            made |-> logsDir.made,
            path |-> EnsureWithinBase(logsDir.path, name).path]

\* writeRun: the base directory, the joined run directory, and run.json
RunWritten(runId) ==
  LET runDir == PathJoin(BaseDir, runId)
  IN  [threw |-> FALSE,
       made |-> {BaseDir, runDir, Append(runDir, "run.json")},
       path |-> Append(runDir, "run.json")]

StoreInit ==
  /\ EngineOff
  /\ GraphOff
  /\ FilterOff
  /\ MergeOff
  /\ ParseOff
  /\ EchoOff
  /\ StreamOff
  /\ applied = "ready"
  /\ storeRunId \in RunIdPaths
  /\ storeOp = [method |-> "", jobId |-> ""]
  /\ touched = {}
  /\ storeThrew = FALSE

\* the state after a call of a method of the store
Called(method, jobId, outcome) ==
  /\ applied' = "stored"
  /\ storeOp' = [method |-> method, jobId |-> jobId]
  /\ touched' = outcome.made
  /\ storeThrew' = outcome.threw
  /\ UNCHANGED <<storeRunId, streamVars, filterVars, mergeVars, parseVars,
                 echoVars, graphVars, runVars>>

CreateRunDir ==
  /\ applied = "ready"
  /\ Called("createRunDir", "", RunDirMade(storeRunId))

CreateLogsDir ==
  /\ applied = "ready"
  /\ Called("createLogsDir", "", SubDirMade(storeRunId, "logs"))

CreateArtifactsDir ==
  /\ applied = "ready"
  /\ Called("createArtifactsDir", "", SubDirMade(storeRunId, "artifacts"))

CreateLogFile(jobId) ==
  /\ applied = "ready"
  /\ Called("createLogFile", jobId, LogFileMade(storeRunId, jobId))

WriteRunRecord ==
  /\ applied = "ready"
  /\ Called("writeRun", "", RunWritten(storeRunId))

StoreNext ==
  \/ CreateRunDir
  \/ CreateLogsDir
  \/ CreateArtifactsDir
  \/ \E jobId \in StoreJobIds : CreateLogFile(jobId)
  \/ WriteRunRecord

StoreSpec == StoreInit /\ [][StoreNext]_vars

\* a path in the base directory
Within(p) == IsPrefix(BaseDir, p)

\* C31: every filesystem operation the store performs for a run id
\* (createRunDir, createLogsDir, createArtifactsDir, createLogFile,
\* writeRun) targets a path inside the store's base directory; a run id
\* that would resolve outside the base directory is rejected with an error
\* before any directory or file is created or written.
C31_StaysInsideBase ==
  applied = "stored" =>
    /\ \A p \in touched : Within(p)
    /\ ~Within(PathResolve(BaseDir, storeRunId)) =>
         /\ storeThrew
         /\ touched \subseteq {BaseDir}

\* the same for the four methods that create directories
C31_CreatorsStayInside ==
  storeOp.method # "writeRun" => C31_StaysInsideBase

====
